---- MODULE Spec2Model ----
(***************************************************************************)
(* A model of the espn-scores package: the response normalizer             *)
(* (utils/parsers.py), the transport (core/client.py), the helpers         *)
(* (utils/helpers.py) and the league clients (sports/base.py, nfl.py,      *)
(* cfb.py, nba.py, nhl.py, cbb.py).                                        *)
(*                                                                         *)
(* Python values are tagged records [k |-> kind, v |-> payload]:           *)
(*   "null"  None                                                          *)
(*   "num"   an int                                                        *)
(*   "str"   a str held as the sequence of its characters                  *)
(*   "sym"   a str that the code only ever compares or copies (the league  *)
(*           tag, the three game statuses), held as one atom               *)
(*   "map"   a dict, a function from the keys that are present             *)
(*   "list"  a list                                                        *)
(* A function of the code evaluates to such a value or to Raise(exc).      *)
(***************************************************************************)
EXTENDS Integers, Sequences, FiniteSets, TLC

\* pc        "idle" before the call, "done" once it has returned or raised
\* call      the function called and its arguments
\* requests  the GETs the call issued, in order
\* responses what the upstream did with each of them
\* outcome   the value returned, or Raise(exc)
VARIABLES pc, call, requests, responses, outcome

vars == <<pc, call, requests, responses, outcome>>

----------------------------------------------------------------------------
(* Python values *)

Null == [k |-> "null"]

Num(n) == [k |-> "num", v |-> n]

Str(chars) == [k |-> "str", v |-> chars]

Sym(s) == [k |-> "sym", v |-> s]

Map(f) == [k |-> "map", v |-> f]

List(s) == [k |-> "list", v |-> s]

EmptyMap == Map(<<>>)

Raise(e) == [k |-> "raise", exc |-> e]

IsRaise(r) == r.k = "raise"

IsMap(x) == x.k = "map"

\* bool(x): None, 0, "", {} and [] are falsy
Truthy(x) ==
    CASE x.k = "null" -> FALSE
      [] x.k = "num" -> x.v # 0
      [] x.k = "str" -> x.v # <<>>
      [] x.k = "sym" -> TRUE
      [] x.k = "map" -> DOMAIN x.v # {}
      [] x.k = "list" -> x.v # <<>>

\* key in d, for a dict d
HasKey(d, key) == key \in DOMAIN d.v

\* d.get(key, default), for a dict d
Get(d, key, default) == IF key \in DOMAIN d.v THEN d.v[key] ELSE default

\* x.get(key, default) for any x: only a dict has the method
GetAttr(x, key, default) ==
    IF IsMap(x) THEN Get(x, key, default) ELSE Raise("AttributeError")

----------------------------------------------------------------------------
(* str <-> int conversions *)

DigitChars == <<"0", "1", "2", "3", "4", "5", "6", "7", "8", "9">>

RECURSIVE NatToStr(_)
NatToStr(n) ==
    IF n < 10 THEN <<DigitChars[n + 1]>>
    ELSE NatToStr(n \div 10) \o <<DigitChars[(n % 10) + 1]>>

\* str(n) of an int n
IntToStr(n) == IF n < 0 THEN <<"-">> \o NatToStr(-n) ELSE NatToStr(n)

IsDigit(c) == \E i \in 1..10 : DigitChars[i] = c

DigitVal(c) == (CHOOSE i \in 1..10 : DigitChars[i] = c) - 1

RECURSIVE LStrip(_)
LStrip(s) == IF s # <<>> /\ Head(s) = " " THEN LStrip(Tail(s)) ELSE s

RECURSIVE RStrip(_)
RStrip(s) ==
    IF s # <<>> /\ s[Len(s)] = " " THEN RStrip(SubSeq(s, 1, Len(s) - 1)) ELSE s

RECURSIVE DigitsVal(_)
DigitsVal(s) ==
    IF s = <<>> THEN 0
    ELSE 10 * DigitsVal(SubSeq(s, 1, Len(s) - 1)) + DigitVal(s[Len(s)])

\* int(x) inside the try of _parse_team: the int, or the exception raised
PyInt(x) ==
    CASE x.k = "num" -> x
      [] x.k = "str" ->
           LET t == RStrip(LStrip(x.v))
               signed == t # <<>> /\ Head(t) \in {"-", "+"}
               d == IF signed THEN Tail(t) ELSE t
           IN  IF d # <<>> /\ \A i \in 1..Len(d) : IsDigit(d[i])
               THEN Num(IF signed /\ Head(t) = "-" THEN -DigitsVal(d)
                        ELSE DigitsVal(d))
               ELSE Raise("ValueError")
      [] OTHER -> Raise("TypeError")

\* BeforeT that keeps the time of day
BeforeT_Whole(s) == s

\* s.split("T")[0]
RECURSIVE BeforeT(_)
BeforeT(s) ==
    IF s = <<>> \/ Head(s) = "T" THEN <<>> ELSE <<Head(s)>> \o BeforeT(Tail(s))

----------------------------------------------------------------------------
(* utils/parsers.py *)

Leagues == {"NFL", "CFB", "NBA", "NHL", "CBB"}

\* _parse_game_time without the NHL branch: hockey falls through to quarters
_parse_game_time_NoHockeyBranch(status, league) ==
    LET period == Get(status, "period", Num(0))
        display_clock == Get(status, "displayClock", Str(<<"0", ":", "0", "0">>))
    IN  IF period.k # "num" THEN Raise("TypeError")
        ELSE IF league \in {"NBA", "CBB"}
        THEN LET period_str ==
                     IF period.v = 5 THEN <<"O", "T">>
                     ELSE IF period.v > 5 THEN <<"O", "T">> \o IntToStr(period.v - 4)
                     ELSE IntToStr(period.v)
             IN  Map("period" :> Str(period_str) @@ "clock" :> display_clock)
        ELSE LET quarter ==
                     IF period.v = 5 THEN <<"O", "T">>
                     ELSE IF period.v > 5 THEN <<"O", "T">> \o IntToStr(period.v - 4)
                     ELSE <<"Q">> \o IntToStr(period.v)
             IN  Map("quarter" :> Str(quarter) @@ "time_remaining" :> display_clock)

\* _parse_game_time with hockey overtime counted from period 5, as in basketball
_parse_game_time_HockeyFourPeriods(status, league) ==
    LET period == Get(status, "period", Num(0))
        display_clock == Get(status, "displayClock", Str(<<"0", ":", "0", "0">>))
    IN  IF period.k # "num" THEN Raise("TypeError")
        ELSE IF league \in {"NBA", "CBB", "NHL"}
        THEN LET period_str ==
                     IF period.v = 5 THEN <<"O", "T">>
                     ELSE IF period.v > 5 THEN <<"O", "T">> \o IntToStr(period.v - 4)
                     ELSE IntToStr(period.v)
             IN  Map("period" :> Str(period_str) @@ "clock" :> display_clock)
        ELSE LET quarter ==
                     IF period.v = 5 THEN <<"O", "T">>
                     ELSE IF period.v > 5 THEN <<"O", "T">> \o IntToStr(period.v - 4)
                     ELSE <<"Q">> \o IntToStr(period.v)
             IN  Map("quarter" :> Str(quarter) @@ "time_remaining" :> display_clock)

\* parsers.py 168-220; status is a dict here (its .get has already been used)
_parse_game_time(status, league) ==
    LET period == Get(status, "period", Num(0))
        display_clock == Get(status, "displayClock", Str(<<"0", ":", "0", "0">>))
    IN  \* period == 5 is False and period > 5 raises for None, str, dict, list
        IF period.k # "num" THEN Raise("TypeError")
        ELSE IF league \in {"NBA", "CBB"}
        THEN LET period_str ==
                     IF period.v = 5 THEN <<"O", "T">>
                     ELSE IF period.v > 5 THEN <<"O", "T">> \o IntToStr(period.v - 4)
                     ELSE IntToStr(period.v)
             IN  Map("period" :> Str(period_str) @@ "clock" :> display_clock)
        ELSE IF league = "NHL"
        THEN LET period_str ==
                     IF period.v = 4 THEN <<"O", "T">>
                     ELSE IF period.v > 4 THEN <<"O", "T">> \o IntToStr(period.v - 3)
                     ELSE IntToStr(period.v)
             IN  Map("period" :> Str(period_str) @@ "clock" :> display_clock)
        ELSE LET quarter ==
                     IF period.v = 5 THEN <<"O", "T">>
                     ELSE IF period.v > 5 THEN <<"O", "T">> \o IntToStr(period.v - 4)
                     ELSE <<"Q">> \o IntToStr(period.v)
             IN  Map("quarter" :> Str(quarter) @@ "time_remaining" :> display_clock)

\* _parse_team without lines 158-160: a scheduled game keeps the parsed score
_parse_team_KeepScheduledScore(competitor, game_status) ==
    LET team_data == Get(competitor, "team", EmptyMap)
        raw_score == Get(competitor, "score", Null)
        parsed == IF raw_score.k = "null" THEN Null
                  ELSE IF IsRaise(PyInt(raw_score)) THEN Null
                  ELSE PyInt(raw_score)
    IN  IF ~IsMap(team_data) THEN Raise("AttributeError")
        ELSE Map("name" :> Get(team_data, "displayName", Str(<<>>))
                 @@ "score" :> parsed)

\* _parse_team without lines 152-156: the score is passed on as it came
_parse_team_NoIntConversion(competitor, game_status) ==
    LET team_data == Get(competitor, "team", EmptyMap)
        raw_score == Get(competitor, "score", Null)
        score == IF game_status = "scheduled" THEN Null ELSE raw_score
    IN  IF ~IsMap(team_data) THEN Raise("AttributeError")
        ELSE Map("name" :> Get(team_data, "displayName", Str(<<>>))
                 @@ "score" :> score)

\* parsers.py 137-165
_parse_team(competitor, game_status) ==
    LET team_data == Get(competitor, "team", EmptyMap)
        raw_score == Get(competitor, "score", Null)
        parsed == IF raw_score.k = "null" THEN Null
                  ELSE IF IsRaise(PyInt(raw_score)) THEN Null
                  ELSE PyInt(raw_score)
        score == IF game_status = "scheduled" THEN Null ELSE parsed
    IN  IF ~IsMap(team_data) THEN Raise("AttributeError")
        ELSE Map("name" :> Get(team_data, "displayName", Str(<<>>))
                 @@ "score" :> score)

(* one pass of the loop body of _parse_games: a game, Skip (continue) or Raise *)
Skip == [k |-> "skip"]

S_home == Str(<<"h", "o", "m", "e">>)

S_away == Str(<<"a", "w", "a", "y">>)

S_post == Str(<<"p", "o", "s", "t">>)

S_in == Str(<<"i", "n">>)

\* TaggedCompetitor that falls back on the position when no competitor has the
\* tag: the first for home, the second for away
TaggedCompetitor_Positional(cs, n, tag) ==
    IF \E i \in 1..n : Get(cs[i], "homeAway", Null) = tag
    THEN cs[CHOOSE i \in 1..n :
                /\ Get(cs[i], "homeAway", Null) = tag
                /\ \A j \in (i + 1)..n : Get(cs[j], "homeAway", Null) # tag]
    ELSE IF tag = S_home THEN cs[1] ELSE cs[2]

\* the last competitor of cs[1..n] whose homeAway is tag, None when there is none
RECURSIVE TaggedCompetitor(_, _, _)
TaggedCompetitor(cs, n, tag) ==
    IF n = 0 THEN Null
    ELSE IF Get(cs[n], "homeAway", Null) = tag THEN cs[n]
    ELSE TaggedCompetitor(cs, n - 1, tag)

\* GameStatus with the final branch as the default
GameStatus_UnknownIsFinal(status_state) ==
    IF status_state = S_in THEN "in_progress"
    ELSE IF status_state = Str(<<"p", "r", "e">>) THEN "scheduled"
    ELSE "final"

\* parsers.py 103-114
GameStatus(status_state) ==
    IF status_state = S_post THEN "final"
    ELSE IF status_state = S_in THEN "in_progress"
    ELSE "scheduled"

\* Game, attaching start_time to every game that is not in progress
Game_StartTimeUnlessLive(event, game_status, away, home, game_time) ==
    IF IsRaise(away) THEN away
    ELSE IF IsRaise(home) THEN home
    ELSE IF IsRaise(game_time) THEN game_time
    ELSE Map("id" :> Get(event, "id", Null)
             @@ "status" :> Sym(game_status)
             @@ "away_team" :> away
             @@ "home_team" :> home
             @@ (IF game_status = "in_progress" THEN "game_time" :> game_time
                 ELSE "start_time" :> Get(event, "date", Null)))

\* parsers.py 116-132: the game dict, or the first exception of its parts
Game(event, game_status, away, home, game_time) ==
    IF IsRaise(away) THEN away
    ELSE IF IsRaise(home) THEN home
    ELSE IF IsRaise(game_time) THEN game_time
    ELSE Map("id" :> Get(event, "id", Null)
             @@ "status" :> Sym(game_status)
             @@ "away_team" :> away
             @@ "home_team" :> home
             @@ (IF game_status = "in_progress" THEN "game_time" :> game_time
                 ELSE <<>>)
             @@ (IF game_status = "scheduled"
                 THEN "start_time" :> Get(event, "date", Null) ELSE <<>>))

\* parsers.py 116-130, with the status mapped
GameWithStatus(event, home_team, away_team, status, game_status, league) ==
    Game(event, game_status,
         _parse_team(away_team, game_status),
         _parse_team(home_team, game_status),
         IF game_status = "in_progress" THEN _parse_game_time(status, league)
         ELSE Null)

\* parsers.py 100-114, with the home and away competitors found
GameOfTeams(event, home_team, away_team, status, league) ==
    IF ~Truthy(home_team) \/ ~Truthy(away_team) THEN Skip
    ELSE IF ~IsMap(status) THEN Raise("AttributeError")
    ELSE IF ~IsMap(Get(status, "type", EmptyMap)) THEN Raise("AttributeError")
    ELSE GameWithStatus(event, home_team, away_team, status,
                        GameStatus(Get(Get(status, "type", EmptyMap), "state",
                                       Str(<<>>))),
                        league)

\* parsers.py 85-104, with the first competition
GameOfCompetition(event, competition, competitors, league) ==
    IF Len(competitors.v) < 2 THEN Skip
    ELSE GameOfTeams(event,
                     TaggedCompetitor(competitors.v, Len(competitors.v), S_home),
                     TaggedCompetitor(competitors.v, Len(competitors.v), S_away),
                     Get(competition, "status", EmptyMap), league)

\* ParseEvent without lines 81-82: competitions[0] of an empty list
ParseEvent_NoEmptyCheck(event, league) ==
    IF ~Truthy(Get(event, "competitions", List(<<>>))) THEN Raise("IndexError")
    ELSE GameOfCompetition(event, event.v["competitions"].v[1],
                           Get(event.v["competitions"].v[1], "competitors",
                               List(<<>>)),
                           league)

\* parsers.py 79-132: one pass of the loop body
ParseEvent(event, league) ==
    IF ~Truthy(Get(event, "competitions", List(<<>>))) THEN Skip
    ELSE GameOfCompetition(event, event.v["competitions"].v[1],
                           Get(event.v["competitions"].v[1], "competitors",
                               List(<<>>)),
                           league)

\* ParseRest that puts the new game in front of the games
RECURSIVE ParseEvents(_, _, _)
ParseRest_Prepend(r, events, league, games) ==
    IF IsRaise(r) THEN r
    ELSE ParseEvents(Tail(events), league,
                     IF r.k = "skip" THEN games ELSE <<r>> \o games)

\* parsers.py 78, 132: the loop, r being what the pass over the first event gave
ParseRest(r, events, league, games) ==
    IF IsRaise(r) THEN r
    ELSE ParseEvents(Tail(events), league,
                     IF r.k = "skip" THEN games ELSE Append(games, r))

ParseEvents(events, league, games) ==
    IF events = <<>> THEN List(games)
    ELSE ParseRest(ParseEvent(Head(events), league), events, league, games)

\* parsers.py 65-134; events is a list of dicts
_parse_games(events, league) == ParseEvents(events.v, league, <<>>)

\* x.get("number") of a week object x
WeekNumberOf(x) == GetAttr(x, "number", Null)

\* Result, attaching week and date only when a value was found
Result_KeyWhenFound(league, year, week_number, date, games) ==
    IF IsRaise(week_number) THEN week_number
    ELSE IF IsRaise(date) THEN date
    ELSE IF IsRaise(year) THEN year
    ELSE IF IsRaise(games) THEN games
    ELSE Map("sport" :> Sym(league) @@ "season" :> year @@ "games" :> games
             @@ (IF league \in {"NFL", "CFB"} /\ week_number.k # "null"
                 THEN "week" :> week_number
                 ELSE IF league \in {"NBA", "NHL", "CBB"} /\ date.k # "null"
                 THEN "date" :> date
                 ELSE <<>>))

\* parsers.py 50-62
Result(league, year, week_number, date, games) ==
    IF IsRaise(week_number) THEN week_number
    ELSE IF IsRaise(date) THEN date
    ELSE IF IsRaise(year) THEN year
    ELSE IF IsRaise(games) THEN games
    ELSE Map("sport" :> Sym(league) @@ "season" :> year @@ "games" :> games
             @@ (IF league \in {"NFL", "CFB"} THEN "week" :> week_number
                 ELSE IF league \in {"NBA", "NHL", "CBB"} THEN "date" :> date
                 ELSE <<>>))

\* parsers.py 40-48: the date of the first event
DateOf(events, league) ==
    IF league \in {"NBA", "NHL", "CBB"} /\ Truthy(events)
       /\ Truthy(Get(events.v[1], "date", Str(<<>>)))
    THEN IF events.v[1].v["date"].k = "str"
         THEN Str(BeforeT(events.v[1].v["date"].v))
         ELSE Raise("AttributeError")
    ELSE Null

\* WithWeek2 that reads the week and the date of the first event only when
\* that event becomes a game
WithWeek2_EmittedOnly(raw_data, league, season_data, week2, events) ==
    Result(league,
           Get(season_data, "year", Null),
           IF IsRaise(week2) THEN week2
           ELSE IF week2.k = "null" /\ Truthy(events) /\ HasKey(events.v[1], "week")
                   /\ ParseEvent(events.v[1], league).k = "map"
           THEN WeekNumberOf(events.v[1].v["week"])
           ELSE week2,
           IF Truthy(events) /\ ParseEvent(events.v[1], league).k = "map"
           THEN DateOf(events, league) ELSE Null,
           _parse_games(events, league))

\* parsers.py 34-62, week2 being the week number found so far
WithWeek2(raw_data, league, season_data, week2, events) ==
    Result(league,
           Get(season_data, "year", Null),
           IF IsRaise(week2) THEN week2
           ELSE IF week2.k = "null" /\ Truthy(events) /\ HasKey(events.v[1], "week")
           THEN WeekNumberOf(events.v[1].v["week"])
           ELSE week2,
           DateOf(events, league),
           _parse_games(events, league))

\* parsers.py 30-62, week1 being the week number found in season_data
WithWeek1(raw_data, league, season_data, week1) ==
    WithWeek2(raw_data, league, season_data,
              IF IsRaise(week1) THEN week1
              ELSE IF week1.k = "null" /\ HasKey(raw_data, "week")
              THEN WeekNumberOf(raw_data.v["week"])
              ELSE week1,
              Get(raw_data, "events", List(<<>>)))

\* parsers.py 24-62, with season_data found
WithSeason(raw_data, league, season_data) ==
    \* "week" in season_data raises TypeError when season_data is None
    IF ~IsMap(season_data) THEN Raise("TypeError")
    ELSE WithWeek1(raw_data, league, season_data,
                   IF HasKey(season_data, "week")
                   THEN WeekNumberOf(season_data.v["week"])
                   ELSE Null)

\* parse_espn_response that reads the season at the top level only
parse_espn_response_TopSeasonOnly(raw_data, league) ==
    WithSeason(raw_data, league, Get(raw_data, "season", EmptyMap))

\* parsers.py 6-62; raw_data is a dict, its "leagues" and "events" are lists of dicts
parse_espn_response(raw_data, league) ==
    WithSeason(raw_data, league,
               IF ~Truthy(Get(raw_data, "season", EmptyMap))
                  /\ HasKey(raw_data, "leagues") /\ Truthy(raw_data.v["leagues"])
               THEN Get(raw_data.v["leagues"].v[1], "season", EmptyMap)
               ELSE Get(raw_data, "season", EmptyMap))

----------------------------------------------------------------------------
(* core/client.py and sports/base.py *)

\* what the upstream does with one GET: a body, an error status, a network
\* failure, or a body that is not JSON
HttpOk(body) == [kind |-> "ok", body |-> body]

HttpStatus(code) == [kind |-> "status", code |-> code]

HttpNetwork == [kind |-> "network"]

HttpBadJson == [kind |-> "bad_json"]

APIException(message, status_code) ==
    [k |-> "raise", exc |-> "APIException", message |-> message,
     status_code |-> status_code]

\* client.py 43-57. response.json() raises requests' JSONDecodeError, which
\* (requests >= 2.31, setup.py) is a RequestException as well as a ValueError,
\* so the second except clause takes it.
ESPNClient_get(http) ==
    CASE http.kind = "ok" -> http.body
      [] http.kind = "status" ->
           APIException("ESPN API request failed", Num(http.code))
      [] http.kind = "network" -> APIException("Network error occurred", Null)
      [] http.kind = "bad_json" -> APIException("Network error occurred", Null)

Request(endpoint, params) == [endpoint |-> endpoint, params |-> params]

\* ESPNClient_requests with a second attempt after a failed GET
ESPNClient_requests_Retry(endpoint, params, http) ==
    IF http.kind = "ok" THEN <<Request(endpoint, params)>>
    ELSE <<Request(endpoint, params), Request(endpoint, params)>>

\* client.py 43-57: the GETs one call of ESPNClient.get issues, whatever the
\* upstream does with them: the one session.get of line 46
ESPNClient_requests(endpoint, params, http) == <<Request(endpoint, params)>>

\* base.py 35-47: one GET, then the normalizer
_get_scoreboard(sport_path, league_name, http) ==
    LET raw_data == ESPNClient_get(http)
    IN  IF IsRaise(raw_data) THEN raw_data
        ELSE parse_espn_response(raw_data, league_name)

\* FilterGames that keeps the games whose status differs from the filter
FilterGames_Inverted(games, status) ==
    SelectSeq(games, LAMBDA g : g.v["status"] # status)

\* [g for g in games if g['status'] == status]
RECURSIVE FilterGames(_, _)
FilterGames(games, status) ==
    IF games = <<>> THEN <<>>
    ELSE IF Head(games).v["status"] = status
         THEN <<Head(games)>> \o FilterGames(Tail(games), status)
         ELSE FilterGames(Tail(games), status)

\* if status: data['games'] = [...]
ApplyStatus(data, status) ==
    IF IsRaise(data) \/ ~Truthy(status) THEN data
    ELSE Map([data.v EXCEPT !["games"] = List(FilterGames(@.v, status))])

----------------------------------------------------------------------------
(* sports/nfl.py: each operation gives the requests it issued and its result *)

Ran(reqs, result) == [requests |-> reqs, result |-> result]

NFLPath == "football/nfl/scoreboard"

\* nfl.py 72-78
NFL_current_week(status, season_type, http) ==
    LET params == IF season_type # 2 THEN "seasontype" :> Num(season_type)
                  ELSE <<>>
    IN  Ran(<<Request(NFLPath, params)>>,
            ApplyStatus(_get_scoreboard("football/nfl", "NFL", http), status))

\* MaxWeekOf with the preseason and postseason limits exchanged
MaxWeekOf_Exchanged(season_type) ==
    CASE season_type = 1 -> 5
      [] season_type = 2 -> 18
      [] season_type = 3 -> 4
      [] OTHER -> 18

\* nfl.py 105-106
MaxWeekOf(season_type) ==
    CASE season_type = 1 -> 4
      [] season_type = 2 -> 18
      [] season_type = 3 -> 5
      [] OTHER -> 18

\* nfl.py 104-122
NFL_week(week_number, status, season_type, http) ==
    LET max_week == MaxWeekOf(season_type)
        params == "week" :> Num(week_number) @@ "seasontype" :> Num(season_type)
    IN  IF ~(1 <= week_number /\ week_number <= max_week)
        THEN Ran(<<>>, Raise("InvalidWeekException"))
        ELSE Ran(<<Request(NFLPath, params)>>,
                 ApplyStatus(_get_scoreboard("football/nfl", "NFL", http), status))

\* nfl.py 206-208; week_number is None or an int
NFL_preseason(week_number, status, http) ==
    IF week_number.k = "null" THEN NFL_current_week(status, 1, http)
    ELSE NFL_week(week_number.v, status, 1, http)

\* nfl.py 238-240
NFL_playoffs(round_number, status, http) ==
    IF round_number.k = "null" THEN NFL_current_week(status, 3, http)
    ELSE NFL_week(round_number.v, status, 3, http)

----------------------------------------------------------------------------
(* sports/cfb.py and sports/cbb.py: the conference lookup *)

UpperChars ==
    <<"A", "B", "C", "D", "E", "F", "G", "H", "I", "J", "K", "L", "M",
      "N", "O", "P", "Q", "R", "S", "T", "U", "V", "W", "X", "Y", "Z">>

LowerChars ==
    <<"a", "b", "c", "d", "e", "f", "g", "h", "i", "j", "k", "l", "m",
      "n", "o", "p", "q", "r", "s", "t", "u", "v", "w", "x", "y", "z">>

\* str.lower(), one character
LowerChar(c) ==
    IF \E i \in 1..26 : UpperChars[i] = c
    THEN LowerChars[CHOOSE i \in 1..26 : UpperChars[i] = c]
    ELSE c

\* str.lower()
Lower(s) == [i \in 1..Len(s) |-> LowerChar(s[i])]

\* the characters str.strip() removes
Whitespace == {" ", "\t", "\n"}

RECURSIVE StripLeft(_)
StripLeft(s) ==
    IF s # <<>> /\ Head(s) \in Whitespace THEN StripLeft(Tail(s)) ELSE s

RECURSIVE StripRight(_)
StripRight(s) ==
    IF s # <<>> /\ s[Len(s)] \in Whitespace
    THEN StripRight(SubSeq(s, 1, Len(s) - 1))
    ELSE s

\* str.strip()
Strip(s) == StripRight(StripLeft(s))

\* cfb.py 244-281: the name table, each name as its characters
Conferences_NAME_TO_ID ==
       <<"a", "c", "c">> :> 1
    @@ <<"a", "t", "l", "a", "n", "t", "i", "c", " ", "c", "o", "a", "s", "t">> :> 1
    @@ <<"a", "t", "l", "a", "n", "t", "i", "c", " ", "c", "o", "a", "s", "t", " ", "c", "o", "n", "f", "e", "r", "e", "n", "c", "e">> :> 1
    @@ <<"b", "i", "g", " ", "1", "2">> :> 4
    @@ <<"b", "i", "g", "1", "2">> :> 4
    @@ <<"b", "i", "g", " ", "1", "0">> :> 5
    @@ <<"b", "i", "g", "1", "0">> :> 5
    @@ <<"b", "i", "g", " ", "t", "e", "n">> :> 5
    @@ <<"b", "i", "g", "t", "e", "n">> :> 5
    @@ <<"s", "e", "c">> :> 8
    @@ <<"s", "o", "u", "t", "h", "e", "a", "s", "t", "e", "r", "n">> :> 8
    @@ <<"s", "o", "u", "t", "h", "e", "a", "s", "t", "e", "r", "n", " ", "c", "o", "n", "f", "e", "r", "e", "n", "c", "e">> :> 8
    @@ <<"a", "m", "e", "r", "i", "c", "a", "n">> :> 151
    @@ <<"a", "a", "c">> :> 151
    @@ <<"a", "m", "e", "r", "i", "c", "a", "n", " ", "a", "t", "h", "l", "e", "t", "i", "c">> :> 151
    @@ <<"a", "m", "e", "r", "i", "c", "a", "n", " ", "a", "t", "h", "l", "e", "t", "i", "c", " ", "c", "o", "n", "f", "e", "r", "e", "n", "c", "e">> :> 151
    @@ <<"c", "u", "s", "a">> :> 12
    @@ <<"c", "-", "u", "s", "a">> :> 12
    @@ <<"c", "o", "n", "f", "e", "r", "e", "n", "c", "e", " ", "u", "s", "a">> :> 12
    @@ <<"m", "a", "c">> :> 15
    @@ <<"m", "i", "d", "-", "a", "m", "e", "r", "i", "c", "a", "n">> :> 15
    @@ <<"m", "i", "d", " ", "a", "m", "e", "r", "i", "c", "a", "n">> :> 15
    @@ <<"m", "o", "u", "n", "t", "a", "i", "n", " ", "w", "e", "s", "t">> :> 17
    @@ <<"m", "w", "c">> :> 17
    @@ <<"s", "u", "n", " ", "b", "e", "l", "t">> :> 37
    @@ <<"s", "u", "n", "b", "e", "l", "t">> :> 37
    @@ <<"b", "i", "g", " ", "s", "k", "y">> :> 20
    @@ <<"c", "a", "a">> :> 48
    @@ <<"c", "o", "a", "s", "t", "a", "l", " ", "a", "t", "h", "l", "e", "t", "i", "c">> :> 48
    @@ <<"i", "v", "y">> :> 22
    @@ <<"i", "v", "y", " ", "l", "e", "a", "g", "u", "e">> :> 22
    @@ <<"m", "v", "f", "c">> :> 21
    @@ <<"m", "i", "s", "s", "o", "u", "r", "i", " ", "v", "a", "l", "l", "e", "y">> :> 21
    @@ <<"p", "i", "o", "n", "e", "e", "r">> :> 28
    @@ <<"s", "w", "a", "c">> :> 31
    @@ <<"s", "o", "u", "t", "h", "w", "e", "s", "t", "e", "r", "n", " ", "a", "t", "h", "l", "e", "t", "i", "c">> :> 31

\* cbb.py 219-255: the name table, each name as its characters
CBBConferences_NAME_TO_ID ==
       <<"a", "c", "c">> :> 2
    @@ <<"a", "t", "l", "a", "n", "t", "i", "c", " ", "c", "o", "a", "s", "t">> :> 2
    @@ <<"a", "t", "l", "a", "n", "t", "i", "c", " ", "c", "o", "a", "s", "t", " ", "c", "o", "n", "f", "e", "r", "e", "n", "c", "e">> :> 2
    @@ <<"b", "i", "g", " ", "e", "a", "s", "t">> :> 4
    @@ <<"b", "i", "g", "e", "a", "s", "t">> :> 4
    @@ <<"b", "i", "g", " ", "1", "2">> :> 8
    @@ <<"b", "i", "g", "1", "2">> :> 8
    @@ <<"b", "i", "g", " ", "1", "0">> :> 7
    @@ <<"b", "i", "g", "1", "0">> :> 7
    @@ <<"b", "i", "g", " ", "t", "e", "n">> :> 7
    @@ <<"b", "i", "g", "t", "e", "n">> :> 7
    @@ <<"s", "e", "c">> :> 23
    @@ <<"s", "o", "u", "t", "h", "e", "a", "s", "t", "e", "r", "n">> :> 23
    @@ <<"s", "o", "u", "t", "h", "e", "a", "s", "t", "e", "r", "n", " ", "c", "o", "n", "f", "e", "r", "e", "n", "c", "e">> :> 23
    @@ <<"a", "m", "e", "r", "i", "c", "a", "n">> :> 62
    @@ <<"a", "a", "c">> :> 62
    @@ <<"a", "m", "e", "r", "i", "c", "a", "n", " ", "a", "t", "h", "l", "e", "t", "i", "c">> :> 62
    @@ <<"a", "t", "l", "a", "n", "t", "i", "c", " ", "1", "0">> :> 3
    @@ <<"a", "1", "0">> :> 3
    @@ <<"a", "-", "1", "0">> :> 3
    @@ <<"c", "u", "s", "a">> :> 11
    @@ <<"c", "-", "u", "s", "a">> :> 11
    @@ <<"c", "o", "n", "f", "e", "r", "e", "n", "c", "e", " ", "u", "s", "a">> :> 11
    @@ <<"m", "a", "c">> :> 15
    @@ <<"m", "i", "d", "-", "a", "m", "e", "r", "i", "c", "a", "n">> :> 15
    @@ <<"m", "i", "d", " ", "a", "m", "e", "r", "i", "c", "a", "n">> :> 15
    @@ <<"m", "o", "u", "n", "t", "a", "i", "n", " ", "w", "e", "s", "t">> :> 17
    @@ <<"m", "w", "c">> :> 17
    @@ <<"p", "a", "c", " ", "1", "2">> :> 21
    @@ <<"p", "a", "c", "-", "1", "2">> :> 21
    @@ <<"s", "u", "n", " ", "b", "e", "l", "t">> :> 37
    @@ <<"s", "u", "n", "b", "e", "l", "t">> :> 37
    @@ <<"w", "c", "c">> :> 18
    @@ <<"w", "e", "s", "t", " ", "c", "o", "a", "s", "t">> :> 18
    @@ <<"w", "e", "s", "t", " ", "c", "o", "a", "s", "t", " ", "c", "o", "n", "f", "e", "r", "e", "n", "c", "e">> :> 18

\* get_id without the lower(): the name is only stripped
get_id_CaseSensitive(table, name_or_id) ==
    CASE name_or_id.k = "num" -> name_or_id
      [] name_or_id.k = "str" ->
           IF Strip(name_or_id.v) \in DOMAIN table
           THEN Num(table[Strip(name_or_id.v)])
           ELSE Null
      [] OTHER -> Null

\* cfb.py 283-310 and cbb.py 257-284, the same code over the class's table
get_id(table, name_or_id) ==
    CASE name_or_id.k = "num" -> name_or_id
      [] name_or_id.k = "str" ->
           IF Strip(Lower(name_or_id.v)) \in DOMAIN table
           THEN Num(table[Strip(Lower(name_or_id.v))])
           ELSE Null
      [] OTHER -> Null

Conferences_get_id(name_or_id) == get_id(Conferences_NAME_TO_ID, name_or_id)

CBBConferences_get_id(name_or_id) == get_id(CBBConferences_NAME_TO_ID, name_or_id)

----------------------------------------------------------------------------
(* utils/helpers.py: the current week and season type of a league *)

\* f"{sport_path}/scoreboard"
ScoreboardEndpoint(sport_path) ==
    CASE sport_path = "football/nfl" -> "football/nfl/scoreboard"
      [] sport_path = "football/college-football" ->
           "football/college-football/scoreboard"
      [] sport_path = "basketball/nba" -> "basketball/nba/scoreboard"
      [] sport_path = "hockey/nhl" -> "hockey/nhl/scoreboard"
      [] sport_path = "basketball/mens-college-basketball" ->
           "basketball/mens-college-basketball/scoreboard"

\* helpers.py 54-62
DefaultLeagueInfo ==
    Map("league_id" :> Str(<<"2", "8">>)
        @@ "league_name" :> Sym("National Football League")
        @@ "league_abbrev" :> Sym("NFL")
        @@ "season_year" :> Sym("datetime.now().year")
        @@ "season_type" :> Num(2)
        @@ "season_type_name" :> Sym("Regular Season")
        @@ "current_week" :> Num(1))

\* helpers.py 38-39: data["events"][0].get("week", {}).get("number") when
\* len(data["events"]) > 0
FirstEventWeek(events) ==
    CASE events.k = "list" ->
           IF events.v = <<>> THEN Null
           ELSE IF ~IsMap(events.v[1]) THEN Raise("AttributeError")
           ELSE GetAttr(Get(events.v[1], "week", EmptyMap), "number", Null)
      [] events.k \in {"map", "str"} ->
           IF Truthy(events) THEN Raise("KeyError") ELSE Null
      [] OTHER -> Raise("TypeError")

\* helpers.py 29-39
LeagueWeek(data, season_data) ==
    IF HasKey(data, "week") /\ IsMap(data.v["week"])
    THEN Get(data.v["week"], "number", Null)
    ELSE IF HasKey(season_data, "week") THEN season_data.v["week"]
    ELSE IF HasKey(data, "events") THEN FirstEventWeek(data.v["events"])
    ELSE Null

\* helpers.py 41-49
LeagueInfo(league_data, season_data, season_type, current_week) ==
    IF IsRaise(current_week) \/ ~IsMap(season_type) THEN DefaultLeagueInfo
    ELSE Map("league_id" :> Get(league_data, "id", Null)
             @@ "league_name" :> Get(league_data, "name", Null)
             @@ "league_abbrev" :> Get(league_data, "abbreviation", Null)
             @@ "season_year" :> Get(season_data, "year", Null)
             @@ "season_type" :> Get(season_type, "type", Null)
             @@ "season_type_name" :> Get(season_type, "name", Null)
             @@ "current_week" :> current_week)

\* helpers.py 25-26
LeagueInfoOfSeason(data, league_data, season_data) ==
    IF ~IsMap(season_data) THEN DefaultLeagueInfo
    ELSE LeagueInfo(league_data, season_data, Get(season_data, "type", EmptyMap),
                    LeagueWeek(data, season_data))

\* helpers.py 23-25
LeagueInfoOfData(data) ==
    IF IsRaise(data) \/ ~IsMap(data) THEN DefaultLeagueInfo
    ELSE IF ~HasKey(data, "leagues") THEN DefaultLeagueInfo
    ELSE IF data.v["leagues"].k # "list" THEN DefaultLeagueInfo
    ELSE IF data.v["leagues"].v = <<>> THEN DefaultLeagueInfo
    ELSE IF ~IsMap(data.v["leagues"].v[1]) THEN DefaultLeagueInfo
    ELSE LeagueInfoOfSeason(data, data.v["leagues"].v[1],
                            Get(data.v["leagues"].v[1], "season", EmptyMap))

\* the GET of helpers.py 20: no query parameters
LeagueInfoRequest(sport_path) == Request(ScoreboardEndpoint(sport_path), Null)

\* get_league_info without the try block: a failed request is raised
get_league_info_Raising(sport_path, http) ==
    Ran(<<LeagueInfoRequest(sport_path)>>,
        IF IsRaise(ESPNClient_get(http)) THEN ESPNClient_get(http)
        ELSE LeagueInfoOfData(ESPNClient_get(http)))

\* helpers.py 8-62: every exception of the try block ends in the defaults
get_league_info(sport_path, http) ==
    Ran(<<LeagueInfoRequest(sport_path)>>, LeagueInfoOfData(ESPNClient_get(http)))

\* x or default
Or(x, default) == IF Truthy(x) THEN x ELSE default

\* helpers.py 65-76
get_current_week(sport_path, http) ==
    Ran(<<LeagueInfoRequest(sport_path)>>,
        Or(Get(get_league_info(sport_path, http).result, "current_week", Null),
           Num(1)))

\* helpers.py 128-139
get_current_season_type(sport_path, http) ==
    Ran(<<LeagueInfoRequest(sport_path)>>,
        Or(Get(get_league_info(sport_path, http).result, "season_type", Null),
           Num(2)))

----------------------------------------------------------------------------
(* sports/cfb.py *)

CFBPath == "football/college-football"

\* the requests of a first step, then those of the step it hands over to
After(reqs, ran) == Ran(reqs \o ran.requests, ran.result)

\* cfb.py 103-112
CFBParams(week_number, season_type, groups) ==
    "week" :> week_number @@ "seasontype" :> season_type
    @@ (IF groups.k = "null" THEN <<>>
        ELSE "groups" :> Conferences_get_id(groups))

\* cfb.py 103-121; week_number and season_type are whatever the caller or
\* get_current_week hands in
CFB_week(week_number, status, season_type, groups, http) ==
    IF groups.k # "null" /\ Conferences_get_id(groups).k = "null"
    THEN Ran(<<>>, Raise("ValueError"))
    ELSE Ran(<<Request(ScoreboardEndpoint(CFBPath),
                       CFBParams(week_number, season_type, groups))>>,
             ApplyStatus(_get_scoreboard(CFBPath, "CFB", http), status))

\* CFB_current_week that asks for the detected season type, whatever the caller gave
CFB_current_week_Detected(status, season_type, groups, https) ==
    After(get_current_week(CFBPath, https[1]).requests
            \o get_current_season_type(CFBPath, https[2]).requests,
          CFB_week(get_current_week(CFBPath, https[1]).result, status,
                   get_current_season_type(CFBPath, https[2]).result,
                   groups, https[3]))

\* cfb.py 74-80; https are the upstream's answers to the GETs, in order
CFB_current_week(status, season_type, groups, https) ==
    After(get_current_week(CFBPath, https[1]).requests
            \o get_current_season_type(CFBPath, https[2]).requests,
          CFB_week(get_current_week(CFBPath, https[1]).result, status,
                   IF Truthy(season_type) THEN season_type
                   ELSE get_current_season_type(CFBPath, https[2]).result,
                   groups, https[3]))

\* cfb.py 140-144
CFB_postseason(week_number, status, groups, https) ==
    IF week_number.k = "null"
    THEN After(get_current_week(CFBPath, https[1]).requests,
               CFB_week(get_current_week(CFBPath, https[1]).result, status,
                        Num(3), groups, https[2]))
    ELSE CFB_week(week_number, status, Num(3), groups, https[1])

\* cfb.py 161
CFB_final_games(https) == CFB_current_week(Sym("final"), Num(2), Null, https)

\* cfb.py 180
CFB_live_games(https) == CFB_current_week(Sym("in_progress"), Num(2), Null, https)

\* cfb.py 198
CFB_upcoming_games(https) == CFB_current_week(Sym("scheduled"), Num(2), Null, https)

----------------------------------------------------------------------------
(* utils/helpers.py: parse_date and format_date *)

\* a datetime, as far as the code uses it
Date(year, month, day) ==
    [k |-> "datetime", year |-> year, month |-> month, day |-> day]

DigitAt(s, i) == i <= Len(s) /\ IsDigit(s[i])

NonZeroAt(s, i) == DigitAt(s, i) /\ s[i] # "0"

\* the lengths of the texts that directive tok of strptime can take at
\* position i of s, in the order its regular expression tries them:
\*   %Y  \d\d\d\d
\*   %m  1[0-2] | 0[1-9] | [1-9]
\*   %d  3[01] | [12]\d | 0[1-9] | [1-9] | " "[1-9]
\* any other tok is a literal character of the format
Alts(tok, s, i) ==
    CASE tok = "Y" ->
           IF \A j \in i..(i + 3) : DigitAt(s, j) THEN <<4>> ELSE <<>>
      [] tok = "m" ->
           (IF DigitAt(s, i) /\ DigitAt(s, i + 1)
               /\ (\/ s[i] = "1" /\ s[i + 1] \in {"0", "1", "2"}
                   \/ s[i] = "0" /\ s[i + 1] # "0")
            THEN <<2>> ELSE <<>>)
           \o (IF NonZeroAt(s, i) THEN <<1>> ELSE <<>>)
      [] tok = "d" ->
           (IF DigitAt(s, i) /\ DigitAt(s, i + 1)
               /\ (\/ s[i] = "3" /\ s[i + 1] \in {"0", "1"}
                   \/ s[i] \in {"1", "2"}
                   \/ s[i] = "0" /\ s[i + 1] # "0")
            THEN <<2>> ELSE <<>>)
           \o (IF NonZeroAt(s, i) THEN <<1>> ELSE <<>>)
           \o (IF i <= Len(s) /\ s[i] = " " /\ NonZeroAt(s, i + 1)
               THEN <<2>> ELSE <<>>)
      [] OTHER -> IF i <= Len(s) /\ s[i] = tok THEN <<1>> ELSE <<>>

\* int() of the text a directive took
FieldVal(s, i, n) ==
    IF s[i] = " " THEN DigitVal(s[i + 1]) ELSE DigitsVal(SubSeq(s, i, i + n - 1))

NoMatch == [ok |-> FALSE]

\* re.match of the format's regular expression: the first match in
\* backtracking order, from position i on
RECURSIVE Match(_, _, _, _)
Match(s, i, fmt, fields) ==
    IF fmt = <<>> THEN [ok |-> TRUE, end |-> i, fields |-> fields]
    ELSE LET alts == Alts(Head(fmt), s, i)
             tries == [n \in 1..Len(alts) |->
                          Match(s, i + alts[n], Tail(fmt),
                                IF Head(fmt) \in {"Y", "m", "d"}
                                THEN fields @@ (Head(fmt) :> FieldVal(s, i, alts[n]))
                                ELSE fields)]
             found == SelectSeq(tries, LAMBDA t : t.ok)
         IN  IF found = <<>> THEN NoMatch ELSE Head(found)

IsLeap(year) == year % 4 = 0 /\ (year % 100 # 0 \/ year % 400 = 0)

DaysIn(year, month) ==
    CASE month = 2 -> IF IsLeap(year) THEN 29 ELSE 28
      [] month \in {4, 6, 9, 11} -> 30
      [] OTHER -> 31

\* the datetime of the fields taken, or the ValueError of a date that does
\* not exist (year 0, February 30)
DateOfFields(fields) ==
    IF fields["Y"] < 1 \/ fields["d"] > DaysIn(fields["Y"], fields["m"])
    THEN Raise("ValueError")
    ELSE Date(fields["Y"], fields["m"], fields["d"])

\* the datetime of a match, or the ValueError of text that did not match or
\* was not all taken ("unconverted data remains")
DateOfMatch(s, found) ==
    IF ~found.ok THEN Raise("ValueError")
    ELSE IF found.end # Len(s) + 1 THEN Raise("ValueError")
    ELSE DateOfFields(found.fields)

\* datetime.strptime(s, fmt) for a format given as its directives and literals
strptime(s, fmt) == DateOfMatch(s, Match(s, 1, fmt, <<>>))

\* helpers.py 104: "%Y%m%d", "%Y-%m-%d", "%m/%d/%Y"
DateFormats ==
    <<<<"Y", "m", "d">>, <<"Y", "-", "m", "-", "d">>, <<"m", "/", "d", "/", "Y">>>>

\* the first format that parses
FirstParsed(parsed) ==
    IF SelectSeq(parsed, LAMBDA d : ~IsRaise(d)) = <<>> THEN Null
    ELSE Head(SelectSeq(parsed, LAMBDA d : ~IsRaise(d)))

\* helpers.py 92-111; strptime of anything but a str raises TypeError, which
\* the outer except turns into None
parse_date(date_str) ==
    IF date_str.k # "str" THEN Null
    ELSE FirstParsed([n \in 1..Len(DateFormats) |->
                         strptime(date_str.v, DateFormats[n])])

Pad(chars, width) ==
    [i \in 1..(width - Len(chars)) |-> "0"] \o chars

\* helpers.py 79-89, date.strftime("%Y%m%d"). The C library decides whether
\* %Y pads a year below 1000 with zeros (year_padded) or not.
format_date(date, year_padded) ==
    (IF year_padded /\ date.year < 1000 THEN Pad(NatToStr(date.year), 4)
     ELSE NatToStr(date.year))
    \o Pad(NatToStr(date.month), 2) \o Pad(NatToStr(date.day), 2)

\* s.replace("-", "")
WithoutHyphens(s) == SelectSeq(s, LAMBDA c : c # "-")

----------------------------------------------------------------------------
(* sports/nba.py, sports/nhl.py and sports/cbb.py *)

\* nba.py 84-90, nhl.py 83-89, cbb.py 89-95: the dates parameter
NormalizedDate(date_str, year_padded) ==
    IF parse_date(date_str).k = "datetime"
    THEN Str(format_date(parse_date(date_str), year_padded))
    ELSE IF date_str.k # "str" THEN Raise("AttributeError")
    ELSE Str(WithoutHyphens(date_str.v))

\* nba.py 92-99 and its copies: the GET with the parameters, then the filter
ScoreboardFor(sport_path, league_name, params, status, http) ==
    IF \E key \in DOMAIN params : IsRaise(params[key])
    THEN Ran(<<>>, params[CHOOSE key \in DOMAIN params : IsRaise(params[key])])
    ELSE Ran(<<Request(ScoreboardEndpoint(sport_path), params)>>,
             ApplyStatus(_get_scoreboard(sport_path, league_name, http), status))

\* base.py 49-56: today() of a league that does not override it, no parameters
BaseSport_today(sport_path, league_name, http) ==
    Ran(<<Request(ScoreboardEndpoint(sport_path), Null)>>,
        _get_scoreboard(sport_path, league_name, http))

\* BaseSport_date with the normalization of the date leagues
BaseSport_date_Normalized(sport_path, league_name, date, http) ==
    ScoreboardFor(sport_path, league_name,
                  "dates" :> NormalizedDate(date, TRUE), Null, http)

\* base.py 58-68: date() of a league that does not override it
BaseSport_date(sport_path, league_name, date, http) ==
    Ran(<<Request(ScoreboardEndpoint(sport_path), "dates" :> date)>>,
        _get_scoreboard(sport_path, league_name, http))

\* nba.py 84-99
NBA_date(date_str, status, http, year_padded) ==
    ScoreboardFor("basketball/nba", "NBA",
                  "dates" :> NormalizedDate(date_str, year_padded), status, http)

\* nba.py 65-66; now is datetime.now()
NBA_today(status, http, now, year_padded) ==
    NBA_date(Str(format_date(now, year_padded)), status, http, year_padded)

NBA_final_games(http, now, year_padded) ==
    NBA_today(Sym("final"), http, now, year_padded)

NBA_live_games(http, now, year_padded) ==
    NBA_today(Sym("in_progress"), http, now, year_padded)

NBA_upcoming_games(http, now, year_padded) ==
    NBA_today(Sym("scheduled"), http, now, year_padded)

\* nhl.py 83-98
NHL_date(date_str, status, http, year_padded) ==
    ScoreboardFor("hockey/nhl", "NHL",
                  "dates" :> NormalizedDate(date_str, year_padded), status, http)

\* nhl.py 64-65
NHL_today(status, http, now, year_padded) ==
    NHL_date(Str(format_date(now, year_padded)), status, http, year_padded)

NHL_final_games(http, now, year_padded) ==
    NHL_today(Sym("final"), http, now, year_padded)

NHL_live_games(http, now, year_padded) ==
    NHL_today(Sym("in_progress"), http, now, year_padded)

NHL_upcoming_games(http, now, year_padded) ==
    NHL_today(Sym("scheduled"), http, now, year_padded)

CBBPath == "basketball/mens-college-basketball"

\* cbb.py 89-113: the date is normalized, then the conference looked up
CBB_date(date_str, status, groups, http, year_padded) ==
    IF ~IsRaise(NormalizedDate(date_str, year_padded))
       /\ groups.k # "null" /\ CBBConferences_get_id(groups).k = "null"
    THEN Ran(<<>>, Raise("ValueError"))
    ELSE ScoreboardFor(CBBPath, "CBB",
                       "dates" :> NormalizedDate(date_str, year_padded)
                       @@ (IF groups.k = "null" THEN <<>>
                           ELSE "groups" :> CBBConferences_get_id(groups)),
                       status, http)

\* cbb.py 68-69
CBB_today(status, groups, http, now, year_padded) ==
    CBB_date(Str(format_date(now, year_padded)), status, groups, http, year_padded)

\* cbb.py 134
CBB_final_games(groups, http, now, year_padded) ==
    CBB_today(Sym("final"), groups, http, now, year_padded)

\* cbb.py 157
CBB_live_games(groups, http, now, year_padded) ==
    CBB_today(Sym("in_progress"), groups, http, now, year_padded)

\* cbb.py 179
CBB_upcoming_games(groups, http, now, year_padded) ==
    CBB_today(Sym("scheduled"), groups, http, now, year_padded)

----------------------------------------------------------------------------
(* the inputs the calls are made with *)

MaxPeriod == 15

MaxEvents == 2

MaxWeekArg == 20

\* the function with the one key when the value is there, with none otherwise
Opt(key, value) == IF value.k = "absent" THEN <<>> ELSE key :> value

Absent == [k |-> "absent"]

C_24 == <<"2", "4">>

C_17 == <<"1", "7">>

C_clock == <<"3", ":", "2", "1">>

C_date == <<"2", "0", "2", "5", "-", "1", "1", "-", "1", "7", "T", "1", "8", ":", "0", "0", "Z">>

\* status objects handed to _parse_game_time
Periods ==
    {Absent, Null, Str(<<"2">>)} \cup {Num(p) : p \in -1..MaxPeriod}

Clocks == {Absent, Null, Str(C_clock)}

GameTimeStatuses ==
    {Map(Opt("period", p) @@ Opt("displayClock", c)) : p \in Periods, c \in Clocks}

\* competitors handed to _parse_team
Scores ==
    {Absent, Null, Num(24), EmptyMap}
    \cup {Str(c) : c \in {C_24, C_17, <<"0">>, <<>>, <<"a", "b", "c">>,
                          <<" ", "7">>, <<"-", "3">>, <<"2", "4", ".", "5">>}}

Teams == {Absent, Null, EmptyMap, Map("displayName" :> Str(<<"B", "i", "l", "l", "s">>))}

TeamCompetitors ==
    {Map("homeAway" :> S_home @@ Opt("score", sc) @@ Opt("team", t)) :
        sc \in Scores, t \in Teams}

GameStatuses == {"final", "in_progress", "scheduled"}

\* events handed to _parse_games: the competitor at position i is named by
\* its position and carries a parseable score
PosName == <<Str(<<"A">>), Str(<<"B">>), Str(<<"C">>)>>

PosScore == <<Str(C_24), Str(C_17), Str(<<"3">>)>>

Competitor(tag, i) ==
    Map(Opt("homeAway", tag) @@ "score" :> PosScore[i]
        @@ "team" :> Map("displayName" :> PosName[i]))

Competitors(tags) == List([i \in 1..Len(tags) |-> Competitor(tags[i], i)])

StateOf(chars) == Map("state" :> Str(chars))

St_post == Map("type" :> StateOf(<<"p", "o", "s", "t">>))

St_in == Map("type" :> StateOf(<<"i", "n">>) @@ "period" :> Num(5)
             @@ "displayClock" :> Str(C_clock))

St_pre == Map("type" :> StateOf(<<"p", "r", "e">>))

St_nullperiod == Map("type" :> StateOf(<<"i", "n">>) @@ "period" :> Null)

EventStatuses ==
    {Absent, St_post, St_in, St_pre,
     Map("type" :> StateOf(<<"p", "o", "s", "t", "p", "o", "n", "e", "d">>)),
     Map("type" :> EmptyMap),
     Map("type" :> Map("state" :> Null)),
     \* malformed: a null period, a status and a type that are not dicts
     St_nullperiod,
     Null,
     Map("type" :> Str(<<"p", "o", "s", "t">>))}

TagPatterns ==
    {<<>>, <<S_home>>, <<S_away, S_home>>, <<S_home, S_home>>, <<S_home, Absent>>,
     <<S_away, S_home, S_home>>}

Competition(tags, status) ==
    List(<<Map("competitors" :> Competitors(tags) @@ Opt("status", status))>>)

EventBodies ==
    {<<>>, "competitions" :> List(<<>>)}
    \cup {"competitions" :> Competition(<<S_home, S_away>>, st)
          @@ "date" :> Str(C_date) : st \in EventStatuses}
    \cup {"competitions" :> Competition(tags, St_post) : tags \in TagPatterns}
    \cup {"competitions" :> Competition(<<S_away, S_home>>, St_pre)}

\* the list of the events with bodies f[1], f[2], ..., the i-th having id i
WithIds(f) ==
    List([i \in DOMAIN f |-> Map(f[i] @@ "id" :> Str(<<DigitChars[i + 1]>>))])

\* the lists of at most n events over the bodies
EventLists(bodies, n) ==
    {WithIds(f) : f \in UNION {[1..m -> bodies] : m \in 0..n}}

\* raw responses handed to parse_espn_response
WeekObj(n) == Map("number" :> Num(n))

Seasons ==
    {Absent, Null, EmptyMap, Map("year" :> Num(2025)),
     Map("year" :> Num(2025) @@ "week" :> WeekObj(2)),
     \* malformed: season.week is a number, not a week object
     Map("year" :> Num(2025) @@ "week" :> Num(2))}

LeaguesLists ==
    {Absent, List(<<>>),
     List(<<Map("season" :> Map("year" :> Num(2024) @@ "week" :> WeekObj(4)))>>)}

TopWeeks == {Absent, WeekObj(1), Num(1)}

GameOf(status) == "competitions" :> Competition(<<S_home, S_away>>, status)

FirstEventBodies ==
    {GameOf(St_post),
     GameOf(St_pre) @@ "date" :> Str(C_date),
     GameOf(St_in) @@ "week" :> WeekObj(3),
     \* a date with no time of day
     GameOf(St_post) @@ "date" :> Str(SubSeq(C_date, 1, 10)),
     "date" :> Str(C_date) @@ "week" :> WeekObj(3),
     \* dropped: one competitor, two with no away tag
     "competitions" :> Competition(<<S_home>>, St_post)
         @@ "date" :> Str(C_date) @@ "week" :> WeekObj(3),
     "competitions" :> Competition(<<S_home, S_home>>, St_post)
         @@ "date" :> Str(C_date) @@ "week" :> WeekObj(3),
     \* malformed: a date that is a number, a period that is null
     GameOf(St_post) @@ "date" :> Num(20251117),
     GameOf(St_nullperiod)}

\* the events that follow the first
LaterEventBodies == {GameOf(St_post), GameOf(St_pre) @@ "date" :> Str(C_date)}

\* the lists of at most n events, the first over FirstEventBodies and the
\* others over LaterEventBodies
FirstThenLater(n) ==
    {WithIds(f) :
        f \in UNION {{g \in [1..m -> FirstEventBodies \cup LaterEventBodies] :
                         /\ m >= 1 => g[1] \in FirstEventBodies
                         /\ \A i \in 2..m : g[i] \in LaterEventBodies} :
                     m \in 0..n}}

RawResponses ==
    {Map(Opt("season", se) @@ Opt("leagues", lg) @@ Opt("week", wk)
         @@ (IF ev.v = <<>> /\ noev THEN <<>> ELSE "events" :> ev)) :
        se \in Seasons, lg \in LeaguesLists, wk \in TopWeeks,
        ev \in FirstThenLater(MaxEvents), noev \in BOOLEAN}

----------------------------------------------------------------------------
(* the calls *)

\* what the upstream may do with the GET of an NFL call
ScoreboardBody ==
    Map("season" :> Map("year" :> Num(2025)) @@ "week" :> WeekObj(11)
        @@ "events" :> WithIds(<<GameOf(St_post), GameOf(St_in), GameOf(St_pre),
                                 "competitions" :> Competition(<<S_home>>, St_post)>>))

BrokenBody == Map("events" :> WithIds(<<GameOf(St_nullperiod)>>))

HttpOutcomes ==
    {HttpStatus(404), HttpStatus(500), HttpNetwork, HttpBadJson}
    \cup {HttpOk(b) : b \in {ScoreboardBody, EmptyMap, BrokenBody}}

WeekArgs == -1..MaxWeekArg

SeasonTypeArgs == 1..4

StatusArgs == {Null} \cup {Sym(st) : st \in GameStatuses}

\* the padding put around a conference name
MaxPad == 1

UpperChar(c) ==
    IF \E i \in 1..26 : LowerChars[i] = c
    THEN UpperChars[CHOOSE i \in 1..26 : LowerChars[i] = c]
    ELSE c

Upper(s) == [i \in 1..Len(s) |-> UpperChar(s[i])]

\* only the first letter in upper case
Capitalized(s) == [i \in 1..Len(s) |-> IF i = 1 THEN UpperChar(s[i]) ELSE s[i]]

\* the padding is made of blanks and line ends
Pads == UNION {[1..n -> {" ", "\n"}] : n \in 0..MaxPad}

\* names no table holds, some of them near misses of "sec"
UnknownNames ==
    {<<>>, <<"x", "y", "z">>, <<"s", "e">>, <<"s", " ", "e", "c">>,
     <<"s", "e", "c", "s">>, <<"b", "i", "g", " ", " ", "t", "e", "n">>}

\* a table's names and the unknown ones, in three spellings, padded
ConferenceNames(table) ==
    {l \o v \o r :
        v \in UNION {{n, Upper(n), Capitalized(n)} :
                        n \in DOMAIN table \cup UnknownNames},
        l \in Pads, r \in Pads}

GetIdArgs(table) ==
    {Null, Num(8), Num(999), List(<<>>)} \cup {Str(n) : n \in ConferenceNames(table)}

\* the groups argument of the league calls
GroupArgs ==
    {Null, Num(8), Str(<<"S", "E", "C">>), Str(<<" ", "S", "e", "c", " ">>),
     Str(<<"x", "y", "z">>), List(<<>>)}

\* bodies of the GET that get_league_info reads
SeasonTypes == {Absent, Map("type" :> Num(3)), Map("type" :> Num(0)), Num(3)}

InfoSeasons ==
    {Map("year" :> Num(2025) @@ Opt("type", ty) @@ Opt("week", wk)) :
        ty \in SeasonTypes, wk \in {Absent, WeekObj(5), Num(5)}}

InfoLeagues ==
    {Absent, List(<<>>), List(<<EmptyMap>>), List(<<Map("season" :> Null)>>)}
    \cup {List(<<Map("id" :> Str(<<"2", "3">>) @@ "season" :> se)>>) :
            se \in InfoSeasons}

InfoEvents ==
    {Absent, List(<<>>), List(<<Map("week" :> WeekObj(9))>>),
     List(<<EmptyMap>>), List(<<Map("week" :> Num(9))>>)}

InfoBodies ==
    {Map(Opt("leagues", lg) @@ Opt("week", wk) @@ Opt("events", ev)) :
        lg \in InfoLeagues,
        wk \in {Absent, WeekObj(7), WeekObj(0), EmptyMap, Num(7)},
        ev \in InfoEvents}
    \cup {List(<<>>)}

InfoOutcomes ==
    {HttpStatus(503), HttpNetwork, HttpBadJson} \cup {HttpOk(b) : b \in InfoBodies}

InfoOf(top_week, season_week, season_type) ==
    Map(Opt("week", top_week)
        @@ "leagues" :> List(<<Map("season" :> Map("year" :> Num(2025)
                                   @@ Opt("week", season_week)
                                   @@ Opt("type", season_type)))>>))

\* the answers to the current-week GETs of a CFB call
CFBInfoOutcomes ==
    {HttpStatus(503),
     HttpOk(InfoOf(WeekObj(7), Absent, Map("type" :> Num(3)))),
     HttpOk(InfoOf(Absent, WeekObj(5), Absent)),
     HttpOk(EmptyMap)}

SportPaths ==
    {"football/nfl", "football/college-football", "basketball/nba",
     "hockey/nhl", "basketball/mens-college-basketball"}

CFBWeekArgs == {Num(1), Num(15), Num(0)}

CFBSeasonTypeArgs == {Num(2), Num(3), Num(0), Null}

\* the date strings the date calls are made with: year, month and day texts
\* put together the compact, the hyphenated and the month/day/year way, and
\* some that are no date at all
YearTexts == {<<"2", "0", "2", "5">>, <<"2", "0", "2", "4">>, <<"0", "9", "9", "9">>}

MonthTexts == {<<"1", "1">>, <<"0", "2">>, <<"2">>, <<"1", "3">>}

DayTexts == {<<"1", "7">>, <<"2", "9">>, <<"3", "0">>, <<"5">>}

NoDates ==
    {<<>>, <<"t", "o", "d", "a", "y">>,
     <<"n", "e", "x", "t", "-", "w", "e", "e", "k">>,
     <<"2", "0", "2", "5", "1", "1", "1", "7", "0">>,
     <<"2", "0", "2", "5", "-", "1", "1", "-", "1", "7", "T", "0", "0">>,
     <<"2", "0", "2", "5", "/", "1", "1", "/", "1", "7">>}

DateStrings ==
    UNION {{y \o m \o d, y \o <<"-">> \o m \o <<"-">> \o d,
            m \o <<"/">> \o d \o <<"/">> \o y} :
              y \in YearTexts, m \in MonthTexts, d \in DayTexts}
    \cup NoDates

DateArgs == {Str(s) : s \in DateStrings} \cup {Null, Num(20251117)}

\* datetime.now()
Nows == {Date(2025, 11, 17), Date(2024, 2, 29)}

\* the answers to the GET of a date call
DateOutcomes == {HttpOk(ScoreboardBody), HttpStatus(404)}

DateStatusArgs == {Null, Sym("final")}

CBBGroupArgs == {Null, Str(<<"a", "c", "c">>), Str(<<"x", "y", "z">>)}

\* the calls made on one ESPNClient
MaxGets == 2

ClientEndpoints == {"football/nfl/scoreboard", "basketball/nba/scoreboard"}

ClientParams == {Null, Map("dates" :> Str(<<"2", "0", "2", "5", "1", "1", "1", "7">>))}

ClientOutcomes ==
    {HttpOk(EmptyMap), HttpOk(ScoreboardBody), HttpStatus(404), HttpStatus(500),
     HttpNetwork, HttpBadJson}

Init ==
    /\ pc = "idle"
    /\ call = [op |-> "none"]
    /\ requests = <<>>
    /\ responses = <<>>
    /\ outcome = [k |-> "none"]

ParseGameTime ==
    /\ pc = "idle"
    /\ \E status \in GameTimeStatuses, league \in Leagues :
        /\ pc' = "done"
        /\ call' = [op |-> "_parse_game_time", status |-> status, league |-> league]
        /\ requests' = <<>>
        /\ responses' = <<>>
        /\ outcome' = _parse_game_time(status, league)

ParseTeam ==
    /\ pc = "idle"
    /\ \E competitor \in TeamCompetitors, game_status \in GameStatuses :
        /\ pc' = "done"
        /\ call' = [op |-> "_parse_team", competitor |-> competitor,
                 game_status |-> game_status]
        /\ requests' = <<>>
        /\ responses' = <<>>
        /\ outcome' = _parse_team(competitor, game_status)

ParseGames ==
    /\ pc = "idle"
    /\ \E events \in EventLists(EventBodies, MaxEvents), league \in Leagues :
        /\ pc' = "done"
        /\ call' = [op |-> "_parse_games", events |-> events, league |-> league]
        /\ requests' = <<>>
        /\ responses' = <<>>
        /\ outcome' = _parse_games(events, league)

ParseEspnResponse ==
    /\ pc = "idle"
    /\ \E raw_data \in RawResponses, league \in Leagues :
        /\ pc' = "done"
        /\ call' = [op |-> "parse_espn_response", raw_data |-> raw_data,
                 league |-> league]
        /\ requests' = <<>>
        /\ responses' = <<>>
        /\ outcome' = parse_espn_response(raw_data, league)

NFLCurrentWeek ==
    /\ pc = "idle"
    /\ \E status \in StatusArgs, season_type \in SeasonTypeArgs, http \in HttpOutcomes :
        LET ran == NFL_current_week(status, season_type, http)
        IN  /\ pc' = "done"
            /\ call' = [op |-> "NFL.current_week", status |-> status,
              season_type |-> season_type]
            /\ requests' = ran.requests
            /\ responses' = IF ran.requests = <<>> THEN <<>> ELSE <<http>>
            /\ outcome' = ran.result

NFLWeek ==
    /\ pc = "idle"
    /\ \E week_number \in WeekArgs, status \in StatusArgs,
          season_type \in SeasonTypeArgs, http \in HttpOutcomes :
        LET ran == NFL_week(week_number, status, season_type, http)
        IN  /\ pc' = "done"
            /\ call' = [op |-> "NFL.week", week_number |-> Num(week_number),
              status |-> status, season_type |-> season_type]
            /\ requests' = ran.requests
            /\ responses' = IF ran.requests = <<>> THEN <<>> ELSE <<http>>
            /\ outcome' = ran.result

NFLPreseason ==
    /\ pc = "idle"
    /\ \E week_number \in {Null} \cup {Num(w) : w \in WeekArgs},
          status \in StatusArgs, http \in HttpOutcomes :
        LET ran == NFL_preseason(week_number, status, http)
        IN  /\ pc' = "done"
            /\ call' = [op |-> "NFL.preseason", week_number |-> week_number,
              status |-> status, season_type |-> 1]
            /\ requests' = ran.requests
            /\ responses' = IF ran.requests = <<>> THEN <<>> ELSE <<http>>
            /\ outcome' = ran.result

NFLPlayoffs ==
    /\ pc = "idle"
    /\ \E round_number \in {Null} \cup {Num(w) : w \in WeekArgs},
          status \in StatusArgs, http \in HttpOutcomes :
        LET ran == NFL_playoffs(round_number, status, http)
        IN  /\ pc' = "done"
            /\ call' = [op |-> "NFL.playoffs", week_number |-> round_number,
              status |-> status, season_type |-> 3]
            /\ requests' = ran.requests
            /\ responses' = IF ran.requests = <<>> THEN <<>> ELSE <<http>>
            /\ outcome' = ran.result

ConferencesGetId ==
    /\ pc = "idle"
    /\ \E name_or_id \in GetIdArgs(Conferences_NAME_TO_ID) :
        /\ pc' = "done"
        /\ call' = [op |-> "Conferences.get_id", name_or_id |-> name_or_id]
        /\ requests' = <<>>
        /\ responses' = <<>>
        /\ outcome' = Conferences_get_id(name_or_id)

CBBConferencesGetId ==
    /\ pc = "idle"
    /\ \E name_or_id \in GetIdArgs(CBBConferences_NAME_TO_ID) :
        /\ pc' = "done"
        /\ call' = [op |-> "CBBConferences.get_id", name_or_id |-> name_or_id]
        /\ requests' = <<>>
        /\ responses' = <<>>
        /\ outcome' = CBBConferences_get_id(name_or_id)

GetLeagueInfo ==
    /\ pc = "idle"
    /\ \E sport_path \in SportPaths, http \in InfoOutcomes :
        /\ pc' = "done"
        /\ call' = [op |-> "get_league_info", sport_path |-> sport_path]
        /\ requests' = get_league_info(sport_path, http).requests
        /\ responses' = <<http>>
        /\ outcome' = get_league_info(sport_path, http).result

GetCurrentWeek ==
    /\ pc = "idle"
    /\ \E sport_path \in SportPaths, http \in InfoOutcomes :
        /\ pc' = "done"
        /\ call' = [op |-> "get_current_week", sport_path |-> sport_path]
        /\ requests' = get_current_week(sport_path, http).requests
        /\ responses' = <<http>>
        /\ outcome' = get_current_week(sport_path, http).result

GetCurrentSeasonType ==
    /\ pc = "idle"
    /\ \E sport_path \in SportPaths, http \in InfoOutcomes :
        /\ pc' = "done"
        /\ call' = [op |-> "get_current_season_type", sport_path |-> sport_path]
        /\ requests' = get_current_season_type(sport_path, http).requests
        /\ responses' = <<http>>
        /\ outcome' = get_current_season_type(sport_path, http).result

CFBWeek ==
    /\ pc = "idle"
    /\ \E week_number \in CFBWeekArgs, status \in StatusArgs,
          season_type \in CFBSeasonTypeArgs, groups \in GroupArgs,
          http \in HttpOutcomes :
        LET ran == CFB_week(week_number, status, season_type, groups, http)
        IN  /\ pc' = "done"
            /\ call' = [op |-> "CFB.week", week_number |-> week_number,
              status |-> status, season_type |-> season_type, groups |-> groups]
            /\ requests' = ran.requests
            /\ responses' = SubSeq(<<http>>, 1, Len(ran.requests))
            /\ outcome' = ran.result

CFBCurrentWeek ==
    /\ pc = "idle"
    /\ \E status \in DateStatusArgs, season_type \in CFBSeasonTypeArgs,
          groups \in GroupArgs, h1 \in CFBInfoOutcomes, h2 \in CFBInfoOutcomes,
          h3 \in HttpOutcomes :
        LET ran == CFB_current_week(status, season_type, groups, <<h1, h2, h3>>)
        IN  /\ pc' = "done"
            /\ call' = [op |-> "CFB.current_week", status |-> status,
              season_type |-> season_type, groups |-> groups]
            /\ requests' = ran.requests
            /\ responses' = SubSeq(<<h1, h2, h3>>, 1, Len(ran.requests))
            /\ outcome' = ran.result

CFBPostseason ==
    /\ pc = "idle"
    /\ \E week_number \in {Null} \cup CFBWeekArgs, status \in StatusArgs,
          groups \in GroupArgs, h1 \in CFBInfoOutcomes \cup HttpOutcomes,
          h2 \in HttpOutcomes :
        LET ran == CFB_postseason(week_number, status, groups, <<h1, h2>>)
        IN  /\ pc' = "done"
            /\ call' = [op |-> "CFB.postseason", week_number |-> week_number,
              status |-> status, season_type |-> Num(3), groups |-> groups]
            /\ requests' = ran.requests
            /\ responses' = SubSeq(<<h1, h2>>, 1, Len(ran.requests))
            /\ outcome' = ran.result

CFBFinalGames ==
    /\ pc = "idle"
    /\ \E h1 \in CFBInfoOutcomes, h2 \in CFBInfoOutcomes, h3 \in HttpOutcomes :
        LET ran == CFB_final_games(<<h1, h2, h3>>)
        IN  /\ pc' = "done"
            /\ call' = [op |-> "CFB.final_games", status |-> Sym("final"),
              season_type |-> Num(2), groups |-> Null]
            /\ requests' = ran.requests
            /\ responses' = SubSeq(<<h1, h2, h3>>, 1, Len(ran.requests))
            /\ outcome' = ran.result

CFBLiveGames ==
    /\ pc = "idle"
    /\ \E h1 \in CFBInfoOutcomes, h2 \in CFBInfoOutcomes, h3 \in HttpOutcomes :
        LET ran == CFB_live_games(<<h1, h2, h3>>)
        IN  /\ pc' = "done"
            /\ call' = [op |-> "CFB.live_games", status |-> Sym("in_progress"),
              season_type |-> Num(2), groups |-> Null]
            /\ requests' = ran.requests
            /\ responses' = SubSeq(<<h1, h2, h3>>, 1, Len(ran.requests))
            /\ outcome' = ran.result

CFBUpcomingGames ==
    /\ pc = "idle"
    /\ \E h1 \in CFBInfoOutcomes, h2 \in CFBInfoOutcomes, h3 \in HttpOutcomes :
        LET ran == CFB_upcoming_games(<<h1, h2, h3>>)
        IN  /\ pc' = "done"
            /\ call' = [op |-> "CFB.upcoming_games", status |-> Sym("scheduled"),
              season_type |-> Num(2), groups |-> Null]
            /\ requests' = ran.requests
            /\ responses' = SubSeq(<<h1, h2, h3>>, 1, Len(ran.requests))
            /\ outcome' = ran.result

NBADate ==
    /\ pc = "idle"
    /\ \E date_str \in DateArgs, status \in DateStatusArgs,
          http \in DateOutcomes, year_padded \in BOOLEAN :
        LET ran == NBA_date(date_str, status, http, year_padded)
        IN  /\ pc' = "done"
            /\ call' = [op |-> "NBA.date", date_str |-> date_str, status |-> status,
              groups |-> Null, year_padded |-> year_padded]
            /\ requests' = ran.requests
            /\ responses' = SubSeq(<<http>>, 1, Len(ran.requests))
            /\ outcome' = ran.result

NBAToday ==
    /\ pc = "idle"
    /\ \E status \in StatusArgs, http \in HttpOutcomes,
          now \in Nows, year_padded \in BOOLEAN :
        LET ran == NBA_today(status, http, now, year_padded)
        IN  /\ pc' = "done"
            /\ call' = [op |-> "NBA.today", now |-> now, status |-> status,
              groups |-> Null, year_padded |-> year_padded]
            /\ requests' = ran.requests
            /\ responses' = SubSeq(<<http>>, 1, Len(ran.requests))
            /\ outcome' = ran.result

NBAFinalGames ==
    /\ pc = "idle"
    /\ \E http \in HttpOutcomes, now \in Nows,
          year_padded \in BOOLEAN :
        LET ran == NBA_final_games(http, now, year_padded)
        IN  /\ pc' = "done"
            /\ call' = [op |-> "NBA.final_games", now |-> now, status |-> Sym("final"),
              groups |-> Null, year_padded |-> year_padded]
            /\ requests' = ran.requests
            /\ responses' = SubSeq(<<http>>, 1, Len(ran.requests))
            /\ outcome' = ran.result

NBALiveGames ==
    /\ pc = "idle"
    /\ \E http \in HttpOutcomes, now \in Nows,
          year_padded \in BOOLEAN :
        LET ran == NBA_live_games(http, now, year_padded)
        IN  /\ pc' = "done"
            /\ call' = [op |-> "NBA.live_games", now |-> now, status |-> Sym("in_progress"),
              groups |-> Null, year_padded |-> year_padded]
            /\ requests' = ran.requests
            /\ responses' = SubSeq(<<http>>, 1, Len(ran.requests))
            /\ outcome' = ran.result

NBAUpcomingGames ==
    /\ pc = "idle"
    /\ \E http \in HttpOutcomes, now \in Nows,
          year_padded \in BOOLEAN :
        LET ran == NBA_upcoming_games(http, now, year_padded)
        IN  /\ pc' = "done"
            /\ call' = [op |-> "NBA.upcoming_games", now |-> now, status |-> Sym("scheduled"),
              groups |-> Null, year_padded |-> year_padded]
            /\ requests' = ran.requests
            /\ responses' = SubSeq(<<http>>, 1, Len(ran.requests))
            /\ outcome' = ran.result

NHLDate ==
    /\ pc = "idle"
    /\ \E date_str \in DateArgs, status \in DateStatusArgs,
          http \in DateOutcomes, year_padded \in BOOLEAN :
        LET ran == NHL_date(date_str, status, http, year_padded)
        IN  /\ pc' = "done"
            /\ call' = [op |-> "NHL.date", date_str |-> date_str, status |-> status,
              groups |-> Null, year_padded |-> year_padded]
            /\ requests' = ran.requests
            /\ responses' = SubSeq(<<http>>, 1, Len(ran.requests))
            /\ outcome' = ran.result

NHLToday ==
    /\ pc = "idle"
    /\ \E status \in StatusArgs, http \in HttpOutcomes,
          now \in Nows, year_padded \in BOOLEAN :
        LET ran == NHL_today(status, http, now, year_padded)
        IN  /\ pc' = "done"
            /\ call' = [op |-> "NHL.today", now |-> now, status |-> status,
              groups |-> Null, year_padded |-> year_padded]
            /\ requests' = ran.requests
            /\ responses' = SubSeq(<<http>>, 1, Len(ran.requests))
            /\ outcome' = ran.result

NHLFinalGames ==
    /\ pc = "idle"
    /\ \E http \in HttpOutcomes, now \in Nows,
          year_padded \in BOOLEAN :
        LET ran == NHL_final_games(http, now, year_padded)
        IN  /\ pc' = "done"
            /\ call' = [op |-> "NHL.final_games", now |-> now, status |-> Sym("final"),
              groups |-> Null, year_padded |-> year_padded]
            /\ requests' = ran.requests
            /\ responses' = SubSeq(<<http>>, 1, Len(ran.requests))
            /\ outcome' = ran.result

NHLLiveGames ==
    /\ pc = "idle"
    /\ \E http \in HttpOutcomes, now \in Nows,
          year_padded \in BOOLEAN :
        LET ran == NHL_live_games(http, now, year_padded)
        IN  /\ pc' = "done"
            /\ call' = [op |-> "NHL.live_games", now |-> now, status |-> Sym("in_progress"),
              groups |-> Null, year_padded |-> year_padded]
            /\ requests' = ran.requests
            /\ responses' = SubSeq(<<http>>, 1, Len(ran.requests))
            /\ outcome' = ran.result

NHLUpcomingGames ==
    /\ pc = "idle"
    /\ \E http \in HttpOutcomes, now \in Nows,
          year_padded \in BOOLEAN :
        LET ran == NHL_upcoming_games(http, now, year_padded)
        IN  /\ pc' = "done"
            /\ call' = [op |-> "NHL.upcoming_games", now |-> now, status |-> Sym("scheduled"),
              groups |-> Null, year_padded |-> year_padded]
            /\ requests' = ran.requests
            /\ responses' = SubSeq(<<http>>, 1, Len(ran.requests))
            /\ outcome' = ran.result

CBBDate ==
    /\ pc = "idle"
    /\ \E date_str \in DateArgs, status \in DateStatusArgs,
          groups \in CBBGroupArgs, http \in DateOutcomes, year_padded \in BOOLEAN :
        LET ran == CBB_date(date_str, status, groups, http, year_padded)
        IN  /\ pc' = "done"
            /\ call' = [op |-> "CBB.date", date_str |-> date_str, status |-> status,
              groups |-> groups, year_padded |-> year_padded]
            /\ requests' = ran.requests
            /\ responses' = SubSeq(<<http>>, 1, Len(ran.requests))
            /\ outcome' = ran.result

CBBToday ==
    /\ pc = "idle"
    /\ \E status \in StatusArgs, groups \in GroupArgs,
          http \in HttpOutcomes,
          now \in Nows, year_padded \in BOOLEAN :
        LET ran == CBB_today(status, groups, http, now, year_padded)
        IN  /\ pc' = "done"
            /\ call' = [op |-> "CBB.today", now |-> now, status |-> status,
              groups |-> groups, year_padded |-> year_padded]
            /\ requests' = ran.requests
            /\ responses' = SubSeq(<<http>>, 1, Len(ran.requests))
            /\ outcome' = ran.result

CBBFinalGames ==
    /\ pc = "idle"
    /\ \E groups \in GroupArgs, http \in HttpOutcomes, now \in Nows,
          year_padded \in BOOLEAN :
        LET ran == CBB_final_games(groups, http, now, year_padded)
        IN  /\ pc' = "done"
            /\ call' = [op |-> "CBB.final_games", now |-> now, status |-> Sym("final"),
              groups |-> groups, year_padded |-> year_padded]
            /\ requests' = ran.requests
            /\ responses' = SubSeq(<<http>>, 1, Len(ran.requests))
            /\ outcome' = ran.result

CBBLiveGames ==
    /\ pc = "idle"
    /\ \E groups \in GroupArgs, http \in HttpOutcomes, now \in Nows,
          year_padded \in BOOLEAN :
        LET ran == CBB_live_games(groups, http, now, year_padded)
        IN  /\ pc' = "done"
            /\ call' = [op |-> "CBB.live_games", now |-> now, status |-> Sym("in_progress"),
              groups |-> groups, year_padded |-> year_padded]
            /\ requests' = ran.requests
            /\ responses' = SubSeq(<<http>>, 1, Len(ran.requests))
            /\ outcome' = ran.result

CBBUpcomingGames ==
    /\ pc = "idle"
    /\ \E groups \in GroupArgs, http \in HttpOutcomes, now \in Nows,
          year_padded \in BOOLEAN :
        LET ran == CBB_upcoming_games(groups, http, now, year_padded)
        IN  /\ pc' = "done"
            /\ call' = [op |-> "CBB.upcoming_games", now |-> now, status |-> Sym("scheduled"),
              groups |-> groups, year_padded |-> year_padded]
            /\ requests' = ran.requests
            /\ responses' = SubSeq(<<http>>, 1, Len(ran.requests))
            /\ outcome' = ran.result

\* nfl.py and cfb.py define neither today nor date: BaseSport's are called
NFLToday ==
    /\ pc = "idle"
    /\ \E http \in HttpOutcomes :
        /\ pc' = "done"
        /\ call' = [op |-> "NFL.today"]
        /\ requests' = BaseSport_today("football/nfl", "NFL", http).requests
        /\ responses' = <<http>>
        /\ outcome' = BaseSport_today("football/nfl", "NFL", http).result

NFLDate ==
    /\ pc = "idle"
    /\ \E date \in DateArgs, http \in DateOutcomes :
        /\ pc' = "done"
        /\ call' = [op |-> "NFL.date", date |-> date]
        /\ requests' = BaseSport_date("football/nfl", "NFL", date, http).requests
        /\ responses' = <<http>>
        /\ outcome' = BaseSport_date("football/nfl", "NFL", date, http).result

CFBToday ==
    /\ pc = "idle"
    /\ \E http \in HttpOutcomes :
        /\ pc' = "done"
        /\ call' = [op |-> "CFB.today"]
        /\ requests' = BaseSport_today(CFBPath, "CFB", http).requests
        /\ responses' = <<http>>
        /\ outcome' = BaseSport_today(CFBPath, "CFB", http).result

CFBDate ==
    /\ pc = "idle"
    /\ \E date \in DateArgs, http \in DateOutcomes :
        /\ pc' = "done"
        /\ call' = [op |-> "CFB.date", date |-> date]
        /\ requests' = BaseSport_date(CFBPath, "CFB", date, http).requests
        /\ responses' = <<http>>
        /\ outcome' = BaseSport_date(CFBPath, "CFB", date, http).result

\* one call of ESPNClient.get; the client is used again after it
ClientGet ==
    /\ \/ pc = "idle"
       \/ pc = "done" /\ call.op = "ESPNClient.get" /\ call.calls < MaxGets
    /\ \E endpoint \in ClientEndpoints, params \in ClientParams,
          http \in ClientOutcomes :
        /\ pc' = "done"
        /\ call' = [op |-> "ESPNClient.get", endpoint |-> endpoint,
              params |-> params,
              calls |-> IF pc = "idle" THEN 1 ELSE call.calls + 1]
        /\ requests' = requests \o ESPNClient_requests(endpoint, params, http)
        /\ responses' = responses \o <<http>>
        /\ outcome' = ESPNClient_get(http)

Next ==
    \/ ParseGameTime
    \/ ParseTeam
    \/ ParseGames
    \/ ParseEspnResponse
    \/ NFLCurrentWeek
    \/ NFLWeek
    \/ NFLPreseason
    \/ NFLPlayoffs
    \/ ConferencesGetId
    \/ CBBConferencesGetId
    \/ GetLeagueInfo
    \/ GetCurrentWeek
    \/ GetCurrentSeasonType
    \/ CFBWeek
    \/ CFBCurrentWeek
    \/ CFBPostseason
    \/ CFBFinalGames
    \/ CFBLiveGames
    \/ CFBUpcomingGames
    \/ ClientGet
    \/ NBADate
    \/ NBAToday
    \/ NBAFinalGames
    \/ NBALiveGames
    \/ NBAUpcomingGames
    \/ NHLDate
    \/ NHLToday
    \/ NHLFinalGames
    \/ NHLLiveGames
    \/ NHLUpcomingGames
    \/ CBBDate
    \/ CBBToday
    \/ CBBFinalGames
    \/ CBBLiveGames
    \/ CBBUpcomingGames
    \/ NFLToday
    \/ NFLDate
    \/ CFBToday
    \/ CFBDate

Spec == Init /\ [][Next]_vars

(* concurrent calls: each caller has a league client instance of its own   *)
(* and runs one week(...) call on it, a step at a time. Here pc, call,      *)
(* responses and outcome are functions of the instance, and requests is a   *)
(* function of the session.                                                 *)

NumInstances == 2

Instances == 1..NumInstances

\* SessionOf with one session behind every instance
SessionOf_Shared(i) == 1

\* base.py 16-18, client.py 24: an instance makes its own client, a client
\* its own session
SessionOf(i) == i

ConcOps == {"NFL.week", "CFB.week"}

ConcWeekArgs == {0, 1}

ConcStatusArgs == {Sym("final")}

ConcGroupArgs == {Str(<<"s", "e", "c">>), Str(<<"x", "y", "z">>)}

ConcOutcomes == {HttpStatus(500), HttpOk(ScoreboardBody)}

\* nfl.py 104-116 and cfb.py 103-114: the parameters of the call c, or the
\* exception raised before any request
WeekParams(c) ==
    IF c.op = "NFL.week"
    THEN IF ~(1 <= c.week_number /\ c.week_number <= MaxWeekOf(c.season_type))
         THEN Raise("InvalidWeekException")
         ELSE Map("week" :> Num(c.week_number)
                  @@ "seasontype" :> Num(c.season_type))
    ELSE IF c.groups.k # "null" /\ Conferences_get_id(c.groups).k = "null"
         THEN Raise("ValueError")
         ELSE Map(CFBParams(Num(c.week_number), Num(c.season_type), c.groups))

\* base.py 45
WeekEndpoint(c) ==
    IF c.op = "NFL.week" THEN NFLPath ELSE ScoreboardEndpoint(CFBPath)

\* base.py 47: the league tag handed to the normalizer
WeekLeague(c) == IF c.op = "NFL.week" THEN "NFL" ELSE "CFB"

ConcInit ==
    /\ pc = [i \in Instances |-> "idle"]
    /\ call = [i \in Instances |-> [op |-> "none"]]
    /\ requests = [s \in Instances |-> <<>>]
    /\ responses = [i \in Instances |-> <<>>]
    /\ outcome = [i \in Instances |-> [k |-> "none"]]

\* the caller enters week(...) on its instance
CallStart(i) ==
    /\ pc[i] = "idle"
    /\ \E op \in ConcOps, week_number \in ConcWeekArgs, status \in ConcStatusArgs,
          groups \in ConcGroupArgs \cup {Null} :
        /\ op = "NFL.week" => groups = Null
        /\ op = "CFB.week" => week_number = 1 /\ groups # Null
        /\ pc' = [pc EXCEPT ![i] = "params"]
        /\ call' = [call EXCEPT ![i] =
                        [op |-> op, week_number |-> week_number,
                         status |-> status, season_type |-> 2,
                         groups |-> groups, params |-> Null,
                         raw_data |-> Null, data |-> Null,
                         \* whether another call was under way when the
                         \* answer to this one came
                         overlapped |-> FALSE]]
        /\ UNCHANGED <<requests, responses, outcome>>

\* nfl.py 104-116, cfb.py 103-114
BuildParams(i) ==
    /\ pc[i] = "params"
    /\ pc' = [pc EXCEPT ![i] = IF IsRaise(WeekParams(call[i])) THEN "done"
                               ELSE "request"]
    /\ call' = [call EXCEPT ![i].params = WeekParams(call[i])]
    /\ outcome' = [outcome EXCEPT ![i] = IF IsRaise(WeekParams(call[i]))
                                         THEN WeekParams(call[i]) ELSE @]
    /\ UNCHANGED <<requests, responses>>

\* client.py 46: the GET leaves through the session of the instance's client
SendRequest(i) ==
    /\ pc[i] = "request"
    /\ pc' = [pc EXCEPT ![i] = "await"]
    /\ requests' = [requests EXCEPT ![SessionOf(i)] =
                        Append(@, Request(WeekEndpoint(call[i]),
                                          call[i].params.v))]
    /\ UNCHANGED <<call, responses, outcome>>

\* client.py 46-57: the upstream answers, the client returns the body or raises
ReceiveResponse(i) ==
    /\ pc[i] = "await"
    /\ \E http \in ConcOutcomes :
        /\ pc' = [pc EXCEPT ![i] = IF IsRaise(ESPNClient_get(http)) THEN "done"
                                   ELSE "normalize"]
        /\ responses' = [responses EXCEPT ![i] = Append(@, http)]
        /\ call' = [call EXCEPT ![i].raw_data =
                        IF IsRaise(ESPNClient_get(http)) THEN Null
                        ELSE ESPNClient_get(http),
                                ![i].overlapped =
                        \E j \in Instances \ {i} : pc[j] \notin {"idle", "done"}]
        /\ outcome' = [outcome EXCEPT ![i] = IF IsRaise(ESPNClient_get(http))
                                             THEN ESPNClient_get(http) ELSE @]
        /\ UNCHANGED requests

\* base.py 47
Normalize(i) ==
    /\ pc[i] = "normalize"
    /\ pc' = [pc EXCEPT ![i] =
                  IF IsRaise(parse_espn_response(call[i].raw_data,
                                                 WeekLeague(call[i])))
                  THEN "done" ELSE "filter"]
    /\ call' = [call EXCEPT ![i].data =
                    parse_espn_response(call[i].raw_data, WeekLeague(call[i]))]
    /\ outcome' = [outcome EXCEPT ![i] =
                       IF IsRaise(parse_espn_response(call[i].raw_data,
                                                      WeekLeague(call[i])))
                       THEN parse_espn_response(call[i].raw_data,
                                                WeekLeague(call[i]))
                       ELSE @]
    /\ UNCHANGED <<requests, responses>>

\* nfl.py 119-122, cfb.py 118-121
Filter(i) ==
    /\ pc[i] = "filter"
    /\ pc' = [pc EXCEPT ![i] = "done"]
    /\ outcome' = [outcome EXCEPT ![i] =
                       ApplyStatus(call[i].data, call[i].status)]
    /\ UNCHANGED <<call, requests, responses>>

ConcNext ==
    \/ \E i \in Instances : CallStart(i)
    \/ \E i \in Instances : BuildParams(i)
    \/ \E i \in Instances : SendRequest(i)
    \/ \E i \in Instances : ReceiveResponse(i)
    \/ \E i \in Instances : Normalize(i)
    \/ \E i \in Instances : Filter(i)

ConcSpec == ConcInit /\ [][ConcNext]_vars

----------------------------------------------------------------------------
(* what a finished call shows *)

Returned == pc = "done" /\ ~IsRaise(outcome)

NFLOps == {"NFL.current_week", "NFL.week", "NFL.preseason", "NFL.playoffs"}

\* the calls whose result is a normalized scoreboard
ScoreboardOps == {"parse_espn_response"} \cup NFLOps

\* the league the call normalizes for
CallLeague == IF call.op \in NFLOps THEN "NFL" ELSE call.league

\* the upstream events the call was given
UpstreamEvents ==
    IF call.op = "_parse_games" THEN call.events.v
    ELSE IF call.op = "parse_espn_response"
    THEN Get(call.raw_data, "events", List(<<>>)).v
    ELSE IF call.op \in NFLOps /\ responses # <<>> /\ responses[1].kind = "ok"
    THEN Get(responses[1].body, "events", List(<<>>)).v
    ELSE <<>>

\* the games the call emitted
EmittedGames ==
    IF ~Returned THEN <<>>
    ELSE IF call.op = "_parse_games" THEN outcome.v
    ELSE IF call.op \in ScoreboardOps THEN outcome.v["games"].v
    ELSE <<>>

GameSet == {EmittedGames[i] : i \in 1..Len(EmittedGames)}

EventSet == {UpstreamEvents[i] : i \in 1..Len(UpstreamEvents)}

\* the upstream event a game was made from
EventOf(g) == CHOOSE e \in EventSet : e.v["id"] = g.v["id"]

\* the status object of an event that became a game
StatusOf(e) == Get(e.v["competitions"].v[1], "status", EmptyMap)

Keys(m) == DOMAIN m.v

----------------------------------------------------------------------------
(* C1: for each of the five league tags, a normalized result has exactly    *)
(* one of the keys week and date: week and not date for NFL and CFB, date   *)
(* and not week for NBA, NHL and CBB, also when the value is null.          *)
Thm_C1_WeekXorDate ==
    (Returned /\ call.op \in ScoreboardOps) =>
        /\ CallLeague \in {"NFL", "CFB"} =>
               "week" \in Keys(outcome) /\ "date" \notin Keys(outcome)
        /\ CallLeague \in {"NBA", "NHL", "CBB"} =>
               "date" \in Keys(outcome) /\ "week" \notin Keys(outcome)

\* a date league with no event: the key date is there, with a null value
Wit_C1_NullDate ==
    /\ Returned /\ call.op = "parse_espn_response" /\ call.league = "NBA"
    /\ UpstreamEvents = <<>>
    /\ "date" \in Keys(outcome) /\ outcome.v["date"] = Null

(* C2: an emitted game has the key game_time iff its status is in_progress  *)
(* and the key start_time iff its status is scheduled; a final game has     *)
(* neither.                                                                  *)
Thm_C2_TimeKeys ==
    \A g \in GameSet :
        /\ "game_time" \in Keys(g) <=> g.v["status"] = Sym("in_progress")
        /\ "start_time" \in Keys(g) <=> g.v["status"] = Sym("scheduled")
        /\ g.v["status"] = Sym("final") =>
               Keys(g) = {"id", "status", "away_team", "home_team"}

Wit_C2_AllThreeStatuses ==
    /\ \E g \in GameSet : g.v["status"] = Sym("in_progress") /\ "game_time" \in Keys(g)
    /\ \E g \in GameSet : g.v["status"] = Sym("scheduled") /\ "start_time" \in Keys(g)
    /\ \E g \in GameSet : g.v["status"] = Sym("final")

(* C3: in an emitted game whose status is scheduled both teams have a null  *)
(* score, also when the upstream competitor has a score that parses; and    *)
(* _parse_team gives a null score whenever it is told the game is scheduled. *)
Thm_C3_ScheduledNoScore ==
    /\ \A g \in GameSet :
           g.v["status"] = Sym("scheduled") =>
               /\ g.v["away_team"].v["score"] = Null
               /\ g.v["home_team"].v["score"] = Null
    /\ (Returned /\ call.op = "_parse_team" /\ call.game_status = "scheduled") =>
           outcome.v["score"] = Null

\* a scheduled game whose upstream competitors carry the scores "24" and "17"
Wit_C3_StrayScore ==
    \E g \in GameSet :
        /\ g.v["status"] = Sym("scheduled")
        /\ g.v["home_team"].v["score"] = Null
        /\ LET cs == EventOf(g).v["competitions"].v[1].v["competitors"].v
           IN  cs[1].v["score"] = Str(C_24) /\ cs[2].v["score"] = Str(C_17)

(* C4: the game_time of an in_progress game has exactly the keys quarter    *)
(* and time_remaining for NFL and CFB and exactly the keys period and clock *)
(* for NBA, CBB and NHL, and its clock or time_remaining is the upstream     *)
(* displayClock as it came.                                                  *)
ClockKey(league) == IF league \in {"NFL", "CFB"} THEN "time_remaining" ELSE "clock"

GameTimeKeys(league) ==
    IF league \in {"NFL", "CFB"} THEN {"quarter", "time_remaining"}
    ELSE {"period", "clock"}

GameTimeFits(game_time, status, league) ==
    /\ Keys(game_time) = GameTimeKeys(league)
    /\ HasKey(status, "displayClock") =>
           game_time.v[ClockKey(league)] = status.v["displayClock"]

Thm_C4_GameTimeShape ==
    /\ \A g \in GameSet :
           g.v["status"] = Sym("in_progress") =>
               GameTimeFits(g.v["game_time"], StatusOf(EventOf(g)), CallLeague)
    /\ (Returned /\ call.op = "_parse_game_time") =>
           GameTimeFits(outcome, call.status, call.league)

\* a hockey game in progress whose game_time carries the upstream clock
Wit_C4_HockeyClock ==
    /\ call.op = "_parse_games" /\ call.league = "NHL"
    /\ \E g \in GameSet :
           /\ g.v["status"] = Sym("in_progress")
           /\ Keys(g.v["game_time"]) = {"period", "clock"}
           /\ g.v["game_time"].v["clock"] = Str(C_clock)

(* C5: the label of an integer period p is, for NBA and CBB, "OT" if p = 5, *)
(* "OT" followed by p - 4 if p > 5, else p in decimal; for NHL, "OT" if      *)
(* p = 4, "OT" followed by p - 3 if p > 4, else p in decimal; for NFL and    *)
(* CFB, "OT" if p = 5, "OT" followed by p - 4 if p > 5, else "Q" followed by *)
(* p. So 1 gives "Q1" or "1", 6 gives "OT2" (5 for NHL).                     *)
LabelKey(league) == IF league \in {"NFL", "CFB"} THEN "quarter" ELSE "period"

Regulation(league) == IF league = "NHL" THEN 3 ELSE 4

ExpectedLabel(league, p) ==
    IF p = Regulation(league) + 1 THEN <<"O", "T">>
    ELSE IF p > Regulation(league) + 1
    THEN <<"O", "T">> \o IntToStr(p - Regulation(league))
    ELSE IF league \in {"NFL", "CFB"} THEN <<"Q">> \o IntToStr(p)
    ELSE IntToStr(p)

\* the cases the specification spells out, as literal strings
SpelledLabel(league, p) ==
    CASE p = 1 /\ league \in {"NFL", "CFB"} -> <<"Q", "1">>
      [] p = 1 /\ league \in {"NBA", "CBB", "NHL"} -> <<"1">>
      [] p = 5 /\ league # "NHL" -> <<"O", "T">>
      [] p = 4 /\ league = "NHL" -> <<"O", "T">>
      [] p = 6 /\ league # "NHL" -> <<"O", "T", "2">>
      [] p = 5 /\ league = "NHL" -> <<"O", "T", "2">>
      [] OTHER -> ExpectedLabel(league, p)

Thm_C5_PeriodLabel ==
    (pc = "done" /\ call.op = "_parse_game_time"
     /\ Get(call.status, "period", Null).k = "num") =>
        LET p == call.status.v["period"].v
        IN  /\ Returned
            /\ outcome.v[LabelKey(call.league)] = Str(ExpectedLabel(call.league, p))
            /\ outcome.v[LabelKey(call.league)] = Str(SpelledLabel(call.league, p))

\* the second overtime of a hockey game
Wit_C5_HockeySecondOvertime ==
    /\ Returned /\ call.op = "_parse_game_time" /\ call.league = "NHL"
    /\ Get(call.status, "period", Null) = Num(5)
    /\ outcome.v["period"] = Str(<<"O", "T", "2">>)

(* C6: the status of a game is final when the upstream state is "post",     *)
(* in_progress when it is "in" and scheduled for every other state, a        *)
(* missing or unrecognised one included; no state makes the parse raise or   *)
(* drop the event.                                                           *)
UpstreamState(e) == Get(Get(StatusOf(e), "type", EmptyMap), "state", Absent)

ExpectedStatus(e) ==
    IF UpstreamState(e) = Str(<<"p", "o", "s", "t">>) THEN "final"
    ELSE IF UpstreamState(e) = Str(<<"i", "n">>) THEN "in_progress"
    ELSE "scheduled"

HasCompetition(e) ==
    HasKey(e, "competitions") /\ e.v["competitions"].v # <<>>

CompetitorsOf(e) ==
    Get(e.v["competitions"].v[1], "competitors", List(<<>>)).v

HasTag(e, tag) ==
    \E i \in 1..Len(CompetitorsOf(e)) :
        Get(CompetitorsOf(e)[i], "homeAway", Absent) = tag

\* an event with a home and an away competitor
Playable(e) ==
    /\ HasCompetition(e)
    /\ Len(CompetitorsOf(e)) >= 2
    /\ HasTag(e, Str(<<"h", "o", "m", "e">>))
    /\ HasTag(e, Str(<<"a", "w", "a", "y">>))

\* an event whose status, status type or period has the wrong type
Malformed(e) ==
    /\ HasCompetition(e)
    /\ \/ ~IsMap(StatusOf(e))
       \/ ~IsMap(Get(StatusOf(e), "type", EmptyMap))
       \/ Get(StatusOf(e), "period", Num(0)).k # "num"

Thm_C6_StatusTotal ==
    /\ \A g \in GameSet :
           /\ g.v["status"] = Sym(ExpectedStatus(EventOf(g)))
           /\ g.v["status"] \in {Sym("final"), Sym("in_progress"), Sym("scheduled")}
    /\ (pc = "done" /\ call.op = "_parse_games") =>
           /\ IsRaise(outcome) => \E e \in EventSet : Malformed(e)
           /\ Returned =>
                  \A e \in EventSet :
                      Playable(e) => \E g \in GameSet : g.v["id"] = e.v["id"]

\* a game whose upstream state is "postponed"
Wit_C6_Postponed ==
    \E g \in GameSet :
        /\ UpstreamState(EventOf(g))
               = Str(<<"p", "o", "s", "t", "p", "o", "n", "e", "d">>)
        /\ g.v["status"] = Sym("scheduled")

(* C7: an event with no competition, or whose first competition has fewer   *)
(* than two competitors, gives no game and no error: the call gives what it *)
(* gives for the other events alone.                                         *)
Dropped(e) == ~HasCompetition(e) \/ Len(CompetitorsOf(e)) < 2

Kept(e) == ~Dropped(e)

Thm_C7_DroppedEvents ==
    /\ Returned =>
           \A e \in EventSet :
               Dropped(e) => ~\E g \in GameSet : g.v["id"] = e.v["id"]
    /\ (pc = "done" /\ call.op = "_parse_games") =>
           outcome = _parse_games(List(SelectSeq(call.events.v, Kept)), call.league)

\* a one-competitor event dropped in front of an event that became a game
Wit_C7_DroppedThenParsed ==
    /\ Returned /\ call.op = "_parse_games"
    /\ Len(UpstreamEvents) = 2
    /\ HasCompetition(UpstreamEvents[1]) /\ Len(CompetitorsOf(UpstreamEvents[1])) = 1
    /\ Len(EmittedGames) = 1
    /\ EmittedGames[1].v["id"] = UpstreamEvents[2].v["id"]

(* C8: in a final or in_progress game a team's score is the integer the     *)
(* upstream score parses to ("24" gives 24) and null when the score is       *)
(* absent or does not parse; one event with state "post", a home competitor *)
(* with "24" and an away competitor with "17" gives exactly one final game   *)
(* with home 24, away 17 and no game_time or start_time.                     *)
ExpectedScore(raw) ==
    CASE raw = Str(<<"2", "4">>) -> Num(24)
      [] raw = Str(<<"1", "7">>) -> Num(17)
      [] raw = Str(<<"0">>) -> Num(0)
      [] raw = Str(<<" ", "7">>) -> Num(7)
      [] raw = Str(<<"-", "3">>) -> Num(-3)
      [] raw = Num(24) -> Num(24)
      [] OTHER -> Null

ScenarioEvents == WithIds(<<GameOf(St_post)>>)

ScenarioGames ==
    <<Map("id" :> Str(<<"1">>)
          @@ "status" :> Sym("final")
          @@ "home_team" :> Map("name" :> Str(<<"A">>) @@ "score" :> Num(24))
          @@ "away_team" :> Map("name" :> Str(<<"B">>) @@ "score" :> Num(17)))>>

Thm_C8_Scores ==
    /\ (Returned /\ call.op = "_parse_team" /\ call.game_status # "scheduled") =>
           outcome.v["score"] = ExpectedScore(Get(call.competitor, "score", Absent))
    /\ (pc = "done" /\ call.op = "parse_espn_response"
        /\ Get(call.raw_data, "events", Absent) = ScenarioEvents
        /\ IsMap(Get(call.raw_data, "season", EmptyMap))
        /\ IsMap(Get(call.raw_data, "week", EmptyMap))
        /\ Get(Get(call.raw_data, "season", EmptyMap), "week", EmptyMap).k = "map") =>
           Returned /\ outcome.v["games"] = List(ScenarioGames)

Wit_C8_Scenario ==
    /\ Returned /\ call.op = "parse_espn_response"
    /\ Get(call.raw_data, "events", Absent) = ScenarioEvents
    /\ outcome.v["games"] = List(ScenarioGames)

(* C9: parse_espn_response returns a result for every response tree and     *)
(* never raises, also when a consumed field is missing, null or of an        *)
(* unexpected type.                                                          *)
CE_C9_NeverRaises ==
    (pc = "done" /\ call.op = "parse_espn_response") => ~IsRaise(outcome)

(* C10: NFL.week, and NFL.preseason and NFL.playoffs given a number, raise  *)
(* InvalidWeekException without a request when the week is outside 1..4     *)
(* (season_type 1), 1..18 (season_type 2) or 1..5 (season_type 3); a week    *)
(* in range issues the one scoreboard request with week and seasontype.      *)
WeekRange(season_type) ==
    CASE season_type = 1 -> 1..4
      [] season_type = 2 -> 1..18
      [] season_type = 3 -> 1..5

WeekCall ==
    /\ pc = "done"
    /\ call.op \in {"NFL.week", "NFL.preseason", "NFL.playoffs"}
    /\ call.week_number.k = "num"
    /\ call.season_type \in {1, 2, 3}

Rejected == outcome = Raise("InvalidWeekException") /\ requests = <<>>

Issued ==
    /\ requests = <<Request("football/nfl/scoreboard",
                            "week" :> call.week_number
                            @@ "seasontype" :> Num(call.season_type))>>
    /\ outcome # Raise("InvalidWeekException")

Thm_C10_WeekRange ==
    WeekCall =>
        /\ call.week_number.v \notin WeekRange(call.season_type) => Rejected
        /\ call.week_number.v \in WeekRange(call.season_type) => Issued
        /\ (call.season_type = 2 /\ call.week_number.v \in {0, 19}) => Rejected
        /\ (call.season_type = 1 /\ call.week_number.v = 4) => Issued
        /\ (call.season_type = 1 /\ call.week_number.v = 5) => Rejected

\* preseason(5) is rejected before any request
Wit_C10_PreseasonWeekFive ==
    /\ pc = "done" /\ call.op = "NFL.preseason" /\ call.week_number = Num(5)
    /\ Rejected

----------------------------------------------------------------------------
(* what a finished league call shows *)

CFBOps ==
    {"CFB.current_week", "CFB.week", "CFB.postseason", "CFB.final_games",
     "CFB.live_games", "CFB.upcoming_games"}

DateLeagueOps(league) ==
    CASE league = "NBA" -> {"NBA.today", "NBA.date", "NBA.final_games",
                            "NBA.live_games", "NBA.upcoming_games"}
      [] league = "NHL" -> {"NHL.today", "NHL.date", "NHL.final_games",
                            "NHL.live_games", "NHL.upcoming_games"}
      [] league = "CBB" -> {"CBB.today", "CBB.date", "CBB.final_games",
                            "CBB.live_games", "CBB.upcoming_games"}

DateOps == DateLeagueOps("NBA") \cup DateLeagueOps("NHL") \cup DateLeagueOps("CBB")

\* the public operations of the league clients
LeagueOps == NFLOps \cup CFBOps \cup DateOps

HelperOps == {"get_league_info", "get_current_week", "get_current_season_type"}

\* two characters that differ at most in letter case
EqualIgnoringCase(c, d) ==
    c = d \/ \E i \in 1..26 : {c, d} = {UpperChars[i], LowerChars[i]}

\* text is name up to letter case, with whitespace around it
SameName(text, name) ==
    \E l \in 0..Len(text) :
        /\ l + Len(name) <= Len(text)
        /\ \A i \in 1..l : text[i] \in Whitespace
        /\ \A i \in 1..Len(name) : EqualIgnoringCase(text[l + i], name[i])
        /\ \A i \in (l + Len(name) + 1)..Len(text) : text[i] \in Whitespace

\* the identifiers that the table gives the names text is a spelling of
Named(table, text) ==
    {table[name] : name \in {n \in DOMAIN table : SameName(text, n)}}

\* the name table of the league the call is made on
CallTable ==
    IF call.op \in CFBOps \cup {"Conferences.get_id"} THEN Conferences_NAME_TO_ID
    ELSE CBBConferences_NAME_TO_ID

(* C11: in CFB current_week, week and postseason and in CBB today, date,    *)
(* final_games, live_games and upcoming_games, a conference name that the    *)
(* league's table does not know ends the call with an error before the call  *)
(* has issued any HTTP request.                                              *)
ConferenceOps ==
    {"CFB.current_week", "CFB.week", "CFB.postseason"} \cup DateLeagueOps("CBB")

UnknownConference ==
    /\ pc = "done" /\ call.op \in ConferenceOps
    /\ call.groups.k = "str"
    /\ Named(CallTable, call.groups.v) = {}

CE_C11_UnknownConferenceBeforeRequest ==
    UnknownConference => IsRaise(outcome) /\ requests = <<>>

(* C12: a public call one of whose HTTP requests failed (error status,       *)
(* network failure, malformed JSON) ends by raising the transport's error    *)
(* for that request; none returns data in its place.                         *)
FailedRequests == {i \in 1..Len(responses) : responses[i].kind # "ok"}

CE_C12_TransportFailureRaised ==
    (pc = "done" /\ call.op \in LeagueOps \cup HelperOps /\ FailedRequests # {})
        => \E i \in FailedRequests : outcome = ESPNClient_get(responses[i])

(* C13: a league operation issues at most one HTTP request per call, and    *)
(* one that resolves the current week first issues at most two.              *)
CurrentWeekOps ==
    {"NFL.current_week", "CFB.current_week", "CFB.postseason", "CFB.final_games",
     "CFB.live_games", "CFB.upcoming_games"}

CE_C13_RequestsPerCall ==
    (pc = "done" /\ call.op \in LeagueOps)
        => Len(requests) <= (IF call.op \in CurrentWeekOps THEN 2 ELSE 1)

(* C14: Conferences.get_id and CBBConferences.get_id resolve every spelling *)
(* of a table name that differs from it only in letter case or surrounding   *)
(* whitespace ("SEC", "sec", " Sec ") to the identifier the table gives the  *)
(* name, and resolve a name the table does not hold to no identifier.        *)
LookupCall ==
    /\ pc = "done"
    /\ call.op \in {"Conferences.get_id", "CBBConferences.get_id"}
    /\ call.name_or_id.k = "str"

SecSpellings ==
    {<<"S", "E", "C">>, <<"s", "e", "c">>, <<" ", "S", "e", "c", " ">>}

DateCall ==
    /\ pc = "done" /\ call.op \in {"NBA.date", "NHL.date", "CBB.date"}
    /\ call.date_str.k = "str"

\* the number a text of digits writes
RECURSIVE NumberOf(_)
NumberOf(text) ==
    IF text = <<>> THEN 0
    ELSE 10 * NumberOf(SubSeq(text, 1, Len(text) - 1))
         + (CHOOSE n \in 0..9 : DigitChars[n + 1] = text[Len(text)])

AllDigits(text) == \A i \in 1..Len(text) : \E n \in 0..9 : DigitChars[n + 1] = text[i]

LeapYear(y) == y % 4 = 0 /\ (y % 100 # 0 \/ y % 400 = 0)

MonthLengths == <<31, 28, 31, 30, 31, 30, 31, 31, 30, 31, 30, 31>>

\* yyyy, mm and dd are the four, two and two digits of a date of the calendar
CalendarDate(yyyy, mm, dd) ==
    /\ Len(yyyy) = 4 /\ Len(mm) = 2 /\ Len(dd) = 2
    /\ AllDigits(yyyy) /\ AllDigits(mm) /\ AllDigits(dd)
    /\ NumberOf(yyyy) >= 1
    /\ NumberOf(mm) \in 1..12
    /\ NumberOf(dd) >= 1
    /\ NumberOf(dd) <= (IF NumberOf(mm) = 2 /\ LeapYear(NumberOf(yyyy)) THEN 29
                        ELSE MonthLengths[NumberOf(mm)])

ValidCompact(text) ==
    /\ Len(text) = 8
    /\ CalendarDate(SubSeq(text, 1, 4), SubSeq(text, 5, 6), SubSeq(text, 7, 8))

ValidHyphenated(text) ==
    /\ Len(text) = 10 /\ text[5] = "-" /\ text[8] = "-"
    /\ CalendarDate(SubSeq(text, 1, 4), SubSeq(text, 6, 7), SubSeq(text, 9, 10))

\* the compact text of the date a valid hyphenated text writes
CompactOf(text) == SubSeq(text, 1, 4) \o SubSeq(text, 6, 7) \o SubSeq(text, 9, 10)

\* the dates parameter of the request the call issued
DatesSent == requests[1].params["dates"]

CE_C15_CompactAndHyphenatedAgree ==
    (DateCall /\ requests # <<>>) =>
        /\ ValidCompact(call.date_str.v) => DatesSent = call.date_str
        /\ ValidHyphenated(call.date_str.v) =>
              DatesSent = Str(CompactOf(call.date_str.v))

(* C16: for NBA, NHL and CBB date(date_str), a string that is neither a     *)
(* valid compact nor a valid hyphenated date is sent upstream as the dates   *)
(* parameter exactly as the caller supplied it.                              *)
CE_C16_OtherStringsVerbatim ==
    (DateCall /\ ~ValidCompact(call.date_str.v) /\ ~ValidHyphenated(call.date_str.v))
        => /\ call.op \in {"NBA.date", "NHL.date"} => Len(requests) = 1
           /\ requests # <<>> => DatesSent = call.date_str

(* C17: ESPNClient.get raises an error carrying the response's status code  *)
(* for a non-2xx status, an error without a status code for a network        *)
(* failure, and for a malformed JSON body an error that is neither the       *)
(* network error nor an HTTP-status error.                                   *)
GetDone == pc = "done" /\ call.op = "ESPNClient.get"

\* what the upstream did with the GET of the last call
LastResponse == responses[Len(responses)]

CE_C17_DistinctErrorKinds ==
    GetDone =>
        /\ LastResponse.kind = "status" =>
              IsRaise(outcome) /\ outcome.status_code = Num(LastResponse.code)
        /\ LastResponse.kind = "network" =>
              IsRaise(outcome) /\ outcome.status_code = Null
        /\ LastResponse.kind = "bad_json" =>
              /\ IsRaise(outcome)
              /\ outcome # ESPNClient_get(HttpNetwork)
              /\ \A code \in {404, 500} : outcome # ESPNClient_get(HttpStatus(code))

(* C18: one call of ESPNClient.get issues exactly one GET, also when that   *)
(* GET fails, and a later call with the same endpoint and parameters issues  *)
(* a GET of its own.                                                         *)
Thm_C18_OneGetPerCall ==
    [][call'.op = "ESPNClient.get" =>
          /\ requests' = requests \o <<Request(call'.endpoint, call'.params)>>
          /\ Len(responses') = Len(requests')
          /\ responses'[Len(responses')].kind # "ok" => IsRaise(outcome')]_vars

\* two calls with the same endpoint and parameters, the first of which failed
Wit_C18_SecondCallFetchesAgain ==
    /\ GetDone /\ call.calls = 2
    /\ Len(requests) = 2 /\ requests[1] = requests[2]
    /\ responses[1].kind # "ok"

(* C19: a league operation given a status filter (final, in_progress or     *)
(* scheduled) returns exactly the normalized games with that status, in      *)
(* their original order, with sport, season and week or date as without the  *)
(* filter; given no filter it returns every normalized game.                 *)
OpLeague ==
    CASE call.op \in NFLOps -> "NFL"
      [] call.op \in CFBOps -> "CFB"
      [] call.op \in DateLeagueOps("NBA") -> "NBA"
      [] call.op \in DateLeagueOps("NHL") -> "NHL"
      [] call.op \in DateLeagueOps("CBB") -> "CBB"

LeagueCallReturned == Returned /\ call.op \in LeagueOps

\* the scoreboard as the normalizer gives it, before any filter
Unfiltered == parse_espn_response(LastResponse.body, OpLeague)

HasStatus(g) == g.v["status"] = call.status

Thm_C19_StatusFilter ==
    LeagueCallReturned =>
        /\ DOMAIN outcome.v = DOMAIN Unfiltered.v
        /\ \A key \in DOMAIN outcome.v \ {"games"} : outcome.v[key] = Unfiltered.v[key]
        /\ call.status \in {Sym("final"), Sym("in_progress"), Sym("scheduled")} =>
              outcome.v["games"] = List(SelectSeq(Unfiltered.v["games"].v, HasStatus))
        /\ call.status = Null => outcome.v["games"] = Unfiltered.v["games"]

\* a filter that kept some games of the scoreboard and removed others
Wit_C19_SomeKeptSomeRemoved ==
    /\ LeagueCallReturned /\ call.op = "CFB.week" /\ call.status = Sym("final")
    /\ outcome.v["games"].v # <<>>
    /\ Len(outcome.v["games"].v) < Len(Unfiltered.v["games"].v)

(* C20: get_current_week returns an integer: on a successful response the   *)
(* week number at the first of the top-level week object, season.week and    *)
(* the first event's week that holds one, and 1 when none does.              *)
Field(x, key) == IF x.k = "map" /\ key \in DOMAIN x.v THEN x.v[key] ELSE Absent

FirstOf(x) == IF x.k = "list" /\ x.v # <<>> THEN x.v[1] ELSE Absent

\* the places of a response body that can hold the week, in the claim's order
WeekPlaces(body) ==
    <<Field(body, "week"),
      Field(Field(FirstOf(Field(body, "leagues")), "season"), "week"),
      Field(FirstOf(Field(body, "events")), "week")>>

HoldsNumber(place) == Field(place, "number").k = "num"

ExpectedWeek(body) ==
    IF SelectSeq(WeekPlaces(body), HoldsNumber) = <<>> THEN Num(1)
    ELSE Field(Head(SelectSeq(WeekPlaces(body), HoldsNumber)), "number")

CE_C20_CurrentWeekNumber ==
    (pc = "done" /\ call.op = "get_current_week" /\ responses[1].kind = "ok")
        => outcome.k = "num" /\ outcome = ExpectedWeek(responses[1].body)

----------------------------------------------------------------------------
\* the upstream's answer to the call of instance i, if it got to ask
AnswerTo(i) == IF responses[i] = <<>> THEN HttpNetwork ELSE responses[i][1]

\* the same call run alone, start to end, on the same answer
AloneRun(i) ==
    IF call[i].op = "NFL.week"
    THEN NFL_week(call[i].week_number, call[i].status, call[i].season_type,
                  AnswerTo(i))
    ELSE CFB_week(Num(call[i].week_number), call[i].status,
                  Num(call[i].season_type), call[i].groups, AnswerTo(i))

(* C21: calls made concurrently through independent client instances share *)
(* no state: however their steps interleave, a finished call has the result *)
(* it has when run alone on the same upstream answer, and the session of    *)
(* its instance carried the requests of that call and no other.             *)
Thm_C21_IndependentInstances ==
    \A i \in Instances :
        pc[i] = "done" =>
            /\ outcome[i] = AloneRun(i).result
            /\ requests[SessionOf(i)] = AloneRun(i).requests

\* two calls that ran while the other was under way, ended with different results
Wit_C21_OverlappingCalls ==
    /\ \A i \in Instances :
           pc[i] = "done" /\ call[i].overlapped /\ ~IsRaise(outcome[i])
    /\ outcome[1] # outcome[2]
    /\ call[1].op # call[2].op

----------------------------------------------------------------------------
\* a finished, returning call of the normalizer for the league tags given
Normalized(tags) ==
    Returned /\ call.op = "parse_espn_response" /\ call.league \in tags

\* the season object the normalizer reads: parsers.py 18-22
SeasonRead(body) ==
    IF Truthy(Get(body, "season", EmptyMap)) THEN Field(body, "season")
    ELSE Field(FirstOf(Field(body, "leagues")), "season")

\* the places of a response that can hold the reported week, in the claim's order
ReportedWeekPlaces(body) ==
    <<Field(body, "week"),
      Field(SeasonRead(body), "week"),
      Field(FirstOf(Field(body, "events")), "week")>>

ReportedWeek(places) ==
    IF SelectSeq(places, HoldsNumber) = <<>> THEN Null
    ELSE Field(Head(SelectSeq(places, HoldsNumber)), "number")

(* C22: for NFL and CFB the reported week is the number at the first of the *)
(* top-level week object, season.week and the first event's week that holds *)
(* one (the top-level one when it and season.week differ), and null when     *)
(* none holds one.                                                           *)
CE_C22_WeekLookupOrder ==
    Normalized({"NFL", "CFB"}) =>
        outcome.v["week"] = ReportedWeek(ReportedWeekPlaces(call.raw_data))

----------------------------------------------------------------------------
\* the competitors of e tagged tag
Tagged(e, tag) ==
    {i \in 1..Len(CompetitorsOf(e)) :
        Get(CompetitorsOf(e)[i], "homeAway", Absent) = tag}

\* the team of game g under key comes from a competitor of its event tagged tag
TeamFrom(g, key, tag) ==
    \E i \in Tagged(EventOf(g), tag) :
        g.v[key] = _parse_team(CompetitorsOf(EventOf(g))[i], g.v["status"].v)

(* C23: an event becomes a game only if its competitors include one tagged  *)
(* home and one tagged away; an event with two or more competitors and a    *)
(* tag missing is dropped, never resolved by position; in every game the     *)
(* home_team comes from a competitor tagged home and the away_team from one *)
(* tagged away.                                                              *)
Thm_C23_HomeAwayTags ==
    /\ \A g \in GameSet :
           /\ TeamFrom(g, "home_team", S_home)
           /\ TeamFrom(g, "away_team", S_away)
    /\ Returned =>
           \A e \in EventSet :
               (HasCompetition(e) /\ Len(CompetitorsOf(e)) >= 2
                /\ (Tagged(e, S_home) = {} \/ Tagged(e, S_away) = {}))
                   => ~\E g \in GameSet : g.v["id"] = e.v["id"]

\* two competitors, both tagged home, dropped; and a game whose home
\* competitor stands second
Wit_C23_MissingAwayDropped ==
    /\ Returned /\ call.op = "_parse_games" /\ Len(UpstreamEvents) = 2
    /\ \A e \in EventSet : HasCompetition(e)
    /\ Len(CompetitorsOf(UpstreamEvents[1])) = 2
    /\ Tagged(UpstreamEvents[1], S_home) = {1, 2}
    /\ Tagged(UpstreamEvents[2], S_home) = {2}
    /\ Len(EmittedGames) = 1
    /\ EmittedGames[1].v["home_team"].v["name"] = PosName[2]

\* the games' ids are a subsequence of the events' ids
RECURSIVE IsSubsequence(_, _)
IsSubsequence(a, b) ==
    IF a = <<>> THEN TRUE
    ELSE IF b = <<>> THEN FALSE
    ELSE IF Head(a) = Head(b) THEN IsSubsequence(Tail(a), Tail(b))
    ELSE IsSubsequence(a, Tail(b))

IdsOf(s) == [i \in 1..Len(s) |-> s[i].v["id"]]

(* C24: the games keep the upstream event order: the ids of the games form  *)
(* a subsequence of the ids of the events, no event gives two games, and     *)
(* there are never more games than events.                                   *)
Thm_C24_EventOrder ==
    Returned =>
        /\ IsSubsequence(IdsOf(EmittedGames), IdsOf(UpstreamEvents))
        /\ Len(EmittedGames) <= Len(UpstreamEvents)
        /\ \A i, j \in 1..Len(EmittedGames) :
               EmittedGames[i].v["id"] = EmittedGames[j].v["id"] => i = j

\* four events, the last dropped, three games in the events' order
Wit_C24_ThreeOfFour ==
    /\ Returned /\ call.op \in NFLOps
    /\ Len(UpstreamEvents) = 4 /\ Len(EmittedGames) = 3
    /\ IdsOf(EmittedGames) = SubSeq(IdsOf(UpstreamEvents), 1, 3)

----------------------------------------------------------------------------
\* the text of s before its first "T", all of s when it has none
CalendarPart(s) ==
    IF \E i \in 1..Len(s) : s[i] = "T"
    THEN SubSeq(s, 1, (CHOOSE i \in 1..Len(s) :
                          s[i] = "T" /\ \A j \in 1..(i - 1) : s[j] # "T") - 1)
    ELSE s

\* the date the claim reports for the events
ReportedDate(events) ==
    IF Field(FirstOf(events), "date").k = "str"
    THEN Str(CalendarPart(Field(FirstOf(events), "date").v))
    ELSE Null

(* C25: for NBA, NHL and CBB the reported date is the first event's date    *)
(* cut before the time-of-day separator "T", and null when there are no      *)
(* events or the first event has no date.                                    *)
Thm_C25_DateTruncated ==
    Normalized({"NBA", "NHL", "CBB"}) =>
        outcome.v["date"] = ReportedDate(Field(call.raw_data, "events"))

\* a first event dated 2025-11-17T18:00Z, reported as 2025-11-17
Wit_C25_TimeOfDayCut ==
    /\ Normalized({"NBA", "NHL", "CBB"})
    /\ Field(FirstOf(Field(call.raw_data, "events")), "date") = Str(C_date)
    /\ outcome.v["date"] = Str(SubSeq(C_date, 1, 10))

----------------------------------------------------------------------------
\* the year of a season object, null when it has none
YearOf(season) == IF Field(season, "year") = Absent THEN Null ELSE Field(season, "year")

\* the season of the first element of the leagues collection
LeagueSeason(body) == Field(FirstOf(Field(body, "leagues")), "season")

----------------------------------------------------------------------------
\* CFB.current_week and the shortcuts that call it with the default season_type
CFBCurrentWeekOps ==
    {"CFB.current_week", "CFB.final_games", "CFB.live_games", "CFB.upcoming_games"}

\* the season type the call was made with
GivenSeasonType == call.season_type

\* a current-week call that got to ask for the scoreboard
WeekQueried == pc = "done" /\ call.op \in CFBCurrentWeekOps /\ Len(requests) = 3

(* C27: CFB.current_week with the default season_type asks for seasontype 2 *)
(* whatever season type get_current_season_type detected; the detected one  *)
(* is used only when the caller passes a falsy season_type (0 or None); the  *)
(* week asked for is the current week number.                                *)
Thm_C27_DefaultSeasonType ==
    WeekQueried =>
        /\ requests[3].params["week"] = get_current_week(CFBPath, responses[1]).result
        /\ requests[3].params["seasontype"] =
               IF GivenSeasonType \in {Num(0), Null}
               THEN get_current_season_type(CFBPath, responses[2]).result
               ELSE GivenSeasonType

\* the postseason detected, the default call asking for regular-season week 7
Wit_C27_PostseasonDetected ==
    /\ WeekQueried /\ call.op = "CFB.current_week" /\ call.season_type = Num(2)
    /\ get_current_season_type(CFBPath, responses[2]).result = Num(3)
    /\ requests[3].params["seasontype"] = Num(2)
    /\ requests[3].params["week"] = Num(7)

----------------------------------------------------------------------------
\* an answer that is a failure or has no non-empty leagues collection
NoLeagues(http) ==
    \/ http.kind # "ok"
    \/ Field(http.body, "leagues").k # "list"
    \/ Field(http.body, "leagues").v = <<>>

\* the fixed defaults of helpers.py 53-62
NFLDefaults ==
    Map("league_id" :> Str(<<"2", "8">>)
        @@ "league_name" :> Sym("National Football League")
        @@ "league_abbrev" :> Sym("NFL")
        @@ "season_year" :> Sym("datetime.now().year")
        @@ "season_type" :> Num(2)
        @@ "season_type_name" :> Sym("Regular Season")
        @@ "current_week" :> Num(1))

\* the call names a conference the table does not know
GroupsUnknown == call.groups # Null /\ Conferences_get_id(call.groups) = Null

\* the helper's request of the call failed or brought no leagues
HelperFailed == pc = "done" /\ responses # <<>> /\ NoLeagues(responses[1])

(* C28: when the request of get_league_info fails in any way, or its         *)
(* response has no non-empty leagues collection, get_league_info raises      *)
(* nothing and returns the fixed NFL defaults whatever the sport_path;       *)
(* get_current_week then returns 1 and get_current_season_type 2, and        *)
(* CFB.current_week and CFB.postseason go on to ask for week 1.              *)
Thm_C28_DefaultsOnFailure ==
    HelperFailed =>
        /\ call.op = "get_league_info" => outcome = NFLDefaults
        /\ call.op = "get_current_week" => outcome = Num(1)
        /\ call.op = "get_current_season_type" => outcome = Num(2)
        /\ (call.op \in CFBCurrentWeekOps /\ ~GroupsUnknown) =>
               Len(requests) = 3 /\ requests[3].params["week"] = Num(1)
        /\ (call.op = "CFB.postseason" /\ call.week_number = Null
            /\ ~GroupsUnknown) =>
               Len(requests) = 2 /\ requests[2].params["week"] = Num(1)

\* the helper's GET answered 503 for college football: postseason week 1 is
\* asked for and its scoreboard returned
Wit_C28_PostseasonWeekOne ==
    /\ HelperFailed /\ call.op = "CFB.postseason" /\ call.week_number = Null
    /\ responses[1] = HttpStatus(503)
    /\ Len(requests) = 2
    /\ requests[2].params["week"] = Num(1)
    /\ requests[2].params["seasontype"] = Num(3)
    /\ Returned

----------------------------------------------------------------------------
\* the first upstream event of the normalizer call is there and gives no game
FirstEventDropped ==
    /\ UpstreamEvents # <<>>
    /\ ~Playable(UpstreamEvents[1])

(* C29: the week (NFL, CFB) or date (NBA, NHL, CBB) of the result is read   *)
(* from the first upstream event whether or not that event becomes a game:  *)
(* when the first event is dropped (no competition, fewer than two           *)
(* competitors, a home or away tag missing) the result still has that        *)
(* event's date, and that event's week when no other place holds one.        *)
Thm_C29_FirstEventRead ==
    (Normalized(Leagues) /\ FirstEventDropped) =>
        /\ \A g \in GameSet : g.v["id"] # UpstreamEvents[1].v["id"]
        /\ call.league \in {"NBA", "NHL", "CBB"} =>
               outcome.v["date"] = ReportedDate(List(UpstreamEvents))
        /\ (/\ call.league \in {"NFL", "CFB"}
            /\ ~HoldsNumber(Field(call.raw_data, "week"))
            /\ ~HoldsNumber(Field(SeasonRead(call.raw_data), "week"))) =>
               outcome.v["week"] =
                   ReportedWeek(<<Field(UpstreamEvents[1], "week")>>)

\* one event with two competitors both tagged home: no game, week 3
Wit_C29_NoGamesButAWeek ==
    /\ Normalized({"CFB"}) /\ Len(UpstreamEvents) = 1
    /\ HasCompetition(UpstreamEvents[1])
    /\ Len(CompetitorsOf(UpstreamEvents[1])) = 2
    /\ EmittedGames = <<>>
    /\ outcome.v["week"] = Num(3)

----------------------------------------------------------------------------
\* the scoreboard endpoint of the league an inherited call was made on
InheritedEndpoint ==
    IF call.op \in {"NFL.today", "NFL.date"} THEN "football/nfl/scoreboard"
    ELSE "football/college-football/scoreboard"

(* C30: NFL.date and CFB.date, inherited from BaseSport, issue exactly one  *)
(* request whose dates parameter is the caller's string unchanged (no        *)
(* compact or hyphenated normalization, so "2025-11-17" and "20251117" give *)
(* different queries), and today() on NFL and CFB issues one request with    *)
(* no query parameters.                                                      *)
Thm_C30_InheritedDateVerbatim ==
    /\ (pc = "done" /\ call.op \in {"NFL.date", "CFB.date"}) =>
           requests = <<Request(InheritedEndpoint, "dates" :> call.date)>>
    /\ (pc = "done" /\ call.op \in {"NFL.today", "CFB.today"}) =>
           requests = <<Request(InheritedEndpoint, Null)>>

\* the hyphenated date goes out with its hyphens
Wit_C30_HyphensKept ==
    /\ Returned /\ call.op = "NFL.date"
    /\ call.date = Str(SubSeq(C_date, 1, 10))
    /\ requests[1].params["dates"] = Str(SubSeq(C_date, 1, 10))
    /\ requests[1].params["dates"] # Str(WithoutHyphens(SubSeq(C_date, 1, 10)))

====
